---- MODULE Spec2Model ----
(***************************************************************************)
(* Parse-extract pipeline of finsight-ai: the schema translator            *)
(* (fieldsToJsonSchema / jsonSchemaToFields), the schema editor            *)
(* (SchemaEditorTable) hosted by the Preview page, and the folder          *)
(* workspace (FolderWorkspace) that drives parsing.                        *)
(*                                                                         *)
(* The specifications share the variables:                                 *)
(*   SpecTranslator  the two pure conversion functions on bounded inputs   *)
(*   SpecEditor      the schema editor and the Preview page around it      *)
(*   SpecEditorEdited      the same editor, started with an unsaved edit   *)
(*   SpecEditorResponsive  the same editor, every remote call responds     *)
(*   SpecFolder      the folder workspace page                             *)
(*   SpecPoller      the parse progress poller of the folder workspace     *)
(*   SpecChunks      the chunk overlays of the Preview page                *)
(*   SpecViewer      zoom and bounding-box overlay of the PDF viewer       *)
(*   SpecAmount      the transaction amount normalizer of the backend      *)
(*   SpecReport      how a failed parse or extract call is reported        *)
(***************************************************************************)
EXTENDS Integers, Sequences, FiniteSets, Bags, TLC

(***************************************************************************)
(* JavaScript values.  Every value is a tagged record so that values of    *)
(* different JavaScript types can be compared; strings, arrays and objects *)
(* carry their content in v, numbers in n, booleans in b.  An object is    *)
(* the sequence of its own enumerable properties in the order              *)
(* Object.entries lists them.                                              *)
(***************************************************************************)
JUndef == [k |-> "undefined"]

JNull == [k |-> "null"]

JStr(s) == [k |-> "string", v |-> s]

JNum(n) == [k |-> "number", n |-> n]

JBool(b) == [k |-> "boolean", b |-> b]

JArr(items) == [k |-> "array", v |-> items]

JObj(entries) == [k |-> "object", v |-> entries]

\* ToBoolean, as used by `!x`, `x || y` and `x ? a : b`.
Truthy(x) ==
    CASE x.k = "undefined" -> FALSE
      [] x.k = "null" -> FALSE
      [] x.k = "string" -> x.v # ""
      [] x.k = "number" -> x.n # 0
      [] x.k = "boolean" -> x.b
      [] OTHER -> TRUE

\* Property keys that are canonical array indices: an object lists these
\* first, in ascending numeric order, before its string keys.
ArrayIndex(key) ==
    CASE key = "0" -> 0
      [] key = "1" -> 1
      [] key = "2" -> 2
      [] key = "3" -> 3
      [] OTHER -> -1

HasKey(entries, key) == \E i \in 1..Len(entries) : entries[i].key = key

\* Position at which a new key is created in an object's property order.
InsertPos(entries, key) ==
    IF ArrayIndex(key) < 0
    THEN Len(entries) + 1
    ELSE Cardinality({i \in 1..Len(entries) :
                        /\ ArrayIndex(entries[i].key) >= 0
                        /\ ArrayIndex(entries[i].key) < ArrayIndex(key)}) + 1

\* obj[key] = val
ObjSet(entries, key, val) ==
    IF HasKey(entries, key)
    THEN [i \in 1..Len(entries) |->
            IF entries[i].key = key THEN [key |-> key, val |-> val] ELSE entries[i]]
    ELSE LET p == InsertPos(entries, key)
         IN  SubSeq(entries, 1, p - 1) \o <<[key |-> key, val |-> val]>>
                 \o SubSeq(entries, p, Len(entries))

\* obj.key for a value that is neither null nor undefined.
Get(x, key) ==
    IF x.k = "object" /\ HasKey(x.v, key)
    THEN x.v[CHOOSE i \in 1..Len(x.v) : x.v[i].key = key].val
    ELSE JUndef

\* obj?.key
OptGet(x, key) == IF x.k \in {"undefined", "null"} THEN JUndef ELSE Get(x, key)

\* Object.entries(x) for a truthy x.  A string lists its characters under
\* their indices; the strings of the model that reach this call have one
\* character.  Numbers and booleans have no own properties.
ObjectEntries(x) ==
    CASE x.k = "object" -> x.v
      [] x.k = "array" -> [i \in 1..Len(x.v) |-> [key |-> ToString(i - 1), val |-> x.v[i]]]
      [] x.k = "string" -> << [key |-> "0", val |-> x] >>
      [] OTHER -> <<>>

(***************************************************************************)
(* Schema translator                                                       *)
(***************************************************************************)
Field(name, type, description, required) ==
    [name |-> name, type |-> JStr(type), description |-> JStr(description),
     required |-> required]

DEFAULT_FIELDS ==
    << Field("date", "string", "Date of the transaction (e.g., DD/MM/YYYY)", TRUE),
       Field("amount", "string", "Transaction amount with sign (+/-)", TRUE),
       Field("balance", "string", "Account balance after transaction", FALSE),
       Field("remarks", "string", "Description or narration of the transaction", FALSE),
       Field("transactionId", "string", "Reference number or transaction ID", FALSE) >>

TypeDefault(type) ==
    IF type = JStr("string") THEN JStr("")
    ELSE IF type = JStr("number") THEN JNum(0) ELSE JBool(FALSE)

FieldProperty(field) ==
    JObj(<< [key |-> "type", val |-> field.type],
            [key |-> "description", val |-> field.description],
            [key |-> "default", val |-> TypeDefault(field.type)] >>)

\* the forEach loop: properties[field.name] = {...}
RECURSIVE BuildProperties(_, _)
BuildProperties(fields, n) ==
    IF n = 0 THEN <<>>
    ELSE ObjSet(BuildProperties(fields, n - 1), fields[n].name, FieldProperty(fields[n]))

\* the forEach loop: if (field.required) required.push(field.name)
RECURSIVE BuildRequired(_, _)
BuildRequired(fields, n) ==
    IF n = 0 THEN <<>>
    ELSE IF fields[n].required
         THEN Append(BuildRequired(fields, n - 1), JStr(fields[n].name))
         ELSE BuildRequired(fields, n - 1)

fieldsToJsonSchema(fields) ==
    LET properties == BuildProperties(fields, Len(fields))
        required == BuildRequired(fields, Len(fields))
        items == JObj(<< [key |-> "type", val |-> JStr("object")],
                         [key |-> "properties", val |-> JObj(properties)],
                         [key |-> "required",
                          val |-> IF Len(required) > 0 THEN JArr(required) ELSE JUndef] >>)
        transactions ==
            JObj(<< [key |-> "type", val |-> JStr("array")],
                    [key |-> "description",
                     val |-> JStr("List of individual transaction records from the statement tables.")],
                    [key |-> "items", val |-> items] >>)
    IN  JObj(<< [key |-> "type", val |-> JStr("object")],
                [key |-> "properties",
                 val |-> JObj(<< [key |-> "transactions", val |-> transactions] >>)],
                [key |-> "required", val |-> JArr(<< JStr("transactions") >>)],
                [key |-> "$defs", val |-> JObj(<<>>)] >>)

\* requiredFields.includes(name) throws unless requiredFields is an array
\* or a string.  On a string it is a substring test: the empty name is in
\* every string, and the other names of the model are in a string of the
\* model only when equal to it.
IncludesThrows(requiredFields) == requiredFields.k \notin {"array", "string"}

Includes(requiredFields, name) ==
    IF requiredFields.k = "array"
    THEN \E i \in 1..Len(requiredFields.v) : requiredFields.v[i] = JStr(name)
    ELSE name = "" \/ requiredFields.v = name

\* `x || fallback`
OrElse(x, fallback) == IF Truthy(x) THEN x ELSE fallback

\* One call of jsonSchemaToFields: the value it returns and whether the
\* catch block wrote to console.error.
Returned(result, logged) == [result |-> result, logged |-> logged]

jsonSchemaToFieldsCall(schema) ==
    IF schema.k \in {"undefined", "null"} THEN Returned(DEFAULT_FIELDS, TRUE)
    ELSE
    LET properties == Get(schema, "properties") IN
    IF ~Truthy(OptGet(properties, "transactions")) THEN Returned(DEFAULT_FIELDS, FALSE)
    ELSE
    LET transactions == Get(properties, "transactions")
        items == Get(transactions, "items")
    IN
    IF ~Truthy(OptGet(items, "properties")) THEN Returned(DEFAULT_FIELDS, FALSE)
    ELSE
    LET itemProperties == Get(items, "properties")
        requiredFields == OrElse(Get(items, "required"), JArr(<<>>))
        entries == ObjectEntries(itemProperties)
        threw == /\ Len(entries) > 0
                 /\ \/ entries[1].val.k \in {"undefined", "null"}
                    \/ IncludesThrows(requiredFields)
                    \/ \E i \in 1..Len(entries) : entries[i].val.k \in {"undefined", "null"}
        fields == [i \in 1..Len(entries) |->
                     [name |-> entries[i].key,
                      type |-> OrElse(Get(entries[i].val, "type"), JStr("string")),
                      description |-> OrElse(Get(entries[i].val, "description"), JStr("")),
                      required |-> Includes(requiredFields, entries[i].key)]]
    IN
    IF threw THEN Returned(DEFAULT_FIELDS, TRUE)
    ELSE IF Len(fields) > 0 THEN Returned(fields, FALSE)
    ELSE Returned(DEFAULT_FIELDS, FALSE)

jsonSchemaToFields(schema) == jsonSchemaToFieldsCall(schema).result

\* JSON.stringify followed by JSON.parse, as the HTTP client and the server
\* do with a request body: properties whose value is undefined are dropped.
RECURSIVE DropUndefined(_)
DropUndefined(x) ==
    IF x.k = "object"
    THEN JObj(LET keep == SelectSeq(x.v, LAMBDA e : e.val.k # "undefined")
              IN  [i \in 1..Len(keep) |-> [key |-> keep[i].key, val |-> DropUndefined(keep[i].val)]])
    ELSE x

(***************************************************************************)
(* HTTP client (lib/api.ts): each function is the request it sends.        *)
(***************************************************************************)
Request(method, endpoint, file, params, body) ==
    [method |-> method, endpoint |-> endpoint, file |-> file, params |-> params, body |-> body]

getFolderDetails == Request("GET", "folder", "", JUndef, JUndef)

uploadFiles(files) == Request("POST", "upload", files, JUndef, JUndef)

deleteFile(file) == Request("DELETE", "file", file, JUndef, JUndef)

\* POST /process/{folder}/{filename}: the combined parse-and-extract call
startProcessing(file) == Request("POST", "process", file, JUndef, JUndef)

\* variant: parsing goes through the legacy combined endpoint
parseFile_viaProcess(file, forceReparse) == startProcessing(file)

parseFile(file, forceReparse) ==
    Request("POST", "parse", file,
            JObj(<< [key |-> "force_reparse", val |-> JBool(forceReparse)] >>), JNull)

getExtractionSchema(file) == Request("GET", "schema", file, JUndef, JUndef)

updateExtractionSchema(file, schema) ==
    Request("PUT", "schema", file, JUndef, JObj(<< [key |-> "schema", val |-> schema] >>))

deleteExtractionSchema(file) == Request("DELETE", "schema", file, JUndef, JUndef)

getProcessingStatus(file) == Request("GET", "process/status", file, JUndef, JUndef)

\* variant: extraction goes through the legacy combined endpoint
extractTransactions_viaProcess(file, useCustomSchema) ==
    startProcessing(file)

extractTransactions(file, useCustomSchema) ==
    Request("POST", "extract", file,
            JObj(<< [key |-> "use_custom_schema", val |-> JBool(useCustomSchema)] >>), JNull)

(***************************************************************************)
(* Bounds                                                                  *)
(***************************************************************************)
\* longest field list the translator is applied to
MaxLen == 2

\* field edits (change, add, remove, move) in one run of the editor
MaxEdits == 1

\* requests of the editor outstanding at one time
MaxInFlight == 2

\* ProcessingProgress instances mounted in one run
MaxPollers == 2

\* chunks in the metadata of one document
MaxChunks == 2

\* pages of the previewed PDF
MaxPages == 2

\* rows of the field table that the modelled user edits
EditIndexes == {1}

VARIABLES
    tPc, tFields, tSchema, tBack, tLogged,
    activeView, csvData,
    fields, isLoading, isSaving, isExtracting, isCustom, hasChanges,
    showSavePrompt,
    requests, srvSchema, toast, lastEvent, edits,
    route, folder, folderIsLoading, isUploading, processingStatus, parsingFile,
    deleteModalOpen, fileToDelete, isDeleting,
    srvFiles, srvParsed, srvExtracted,
    pollerId, pollPhase, pollInterval,
    metadata, numPages, selectedChunkId, clickedChunk, scrolledTo, overlays,
    scale, containerWidth, canvasRect, pageDimensions, recapturePending,
    showBoundingBoxes, chunkBox, overlayRect,
    aPc, aTransaction, aAmount,
    rPc, rCall, rError, rRejection, rReport

translatorVars == <<tPc, tFields, tSchema, tBack, tLogged>>

previewVars == <<activeView, csvData>>

editorState ==
    <<fields, isLoading, isSaving, isExtracting, isCustom, hasChanges, showSavePrompt>>

editorVars ==
    <<previewVars, editorState, requests, srvSchema, toast, lastEvent, edits>>

folderState ==
    <<folder, folderIsLoading, isUploading, processingStatus, parsingFile,
      deleteModalOpen, fileToDelete, isDeleting>>

serverFiles == <<srvFiles, srvParsed, srvExtracted>>

\* requests, toast and lastEvent are shared with the editor
\* toast holds the fixed text of the message addToast got in the latest step
\* ("" if none); interpolated counts and file names and the server's own
\* error text (error.detail) are left out
folderVars == <<route, folderState, serverFiles>>

\* the ProcessingProgress component of the folder page
pollerVars == <<pollerId, pollPhase, pollInterval>>

chunkVars == <<metadata, numPages, selectedChunkId, clickedChunk, scrolledTo, overlays>>

viewerVars ==
    <<scale, containerWidth, canvasRect, pageDimensions, recapturePending,
      showBoundingBoxes, chunkBox, overlayRect>>

amountVars == <<aPc, aTransaction, aAmount>>

reportVars == <<rPc, rCall, rError, rRejection, rReport>>

vars ==
    <<translatorVars, editorVars, folderVars, pollerVars, chunkVars, viewerVars, amountVars,
      reportVars>>

(***************************************************************************)
(* Translator specification: both conversions applied to bounded inputs.   *)
(***************************************************************************)
TranslatorNames == {"", "date", "1", "2"}

TranslatorTypes == {"string", "number", "boolean"}

TranslatorDescriptions == {"", "Date of the transaction"}

TranslatorFields ==
    {Field(n, t, d, r) : n \in TranslatorNames, t \in TranslatorTypes,
                         d \in TranslatorDescriptions, r \in BOOLEAN}

FieldLists == UNION {[1..n -> TranslatorFields] : n \in 0..MaxLen}

\* Schema documents a response can carry (response.schema is typed
\* Record<string, unknown>): at each level of the path
\* properties.transactions.items.properties the value is absent, null, of
\* another type, or an object.
Entry(key, val) == [key |-> key, val |-> val]

ItemPropertiesValues ==
    { JUndef, JNull, JStr("x"), JNum(5), JArr(<< JStr("x") >>), JObj(<<>>),
      JObj(<< Entry("date", JObj(<< Entry("type", JStr("number")) >>)) >>),
      JObj(<< Entry("date", JObj(<< Entry("type", JStr("integer")),
                                    Entry("description", JStr("Date of the transaction")) >>)),
              Entry("amount", JObj(<< Entry("type", JStr("boolean")) >>)) >>),
      JObj(<< Entry("date", JStr("string")) >>),
      JObj(<< Entry("date", JNull) >>) }

RequiredValues == { JUndef, JArr(<< JStr("date") >>), JStr("date"), JNum(1) }

ItemsValues ==
    { JUndef, JNull, JStr("x") }
        \cup { JObj(<< Entry("properties", p), Entry("required", r) >>) :
                  p \in ItemPropertiesValues, r \in RequiredValues }

TransactionsValues ==
    { JUndef, JNull, JStr("x") } \cup { JObj(<< Entry("items", i) >>) : i \in ItemsValues }

PropertiesValues ==
    { JUndef, JNull, JStr("x") }
        \cup { JObj(<< Entry("transactions", t) >>) : t \in TransactionsValues }

SchemaDocuments ==
    { JUndef, JNull, JStr("x") }
        \cup { JObj(<< Entry("properties", p) >>) : p \in PropertiesValues }

(***************************************************************************)
(* Schema editor (SchemaEditorTable) inside the Preview page, for one      *)
(* parsed document.  `requests` are the editor's HTTP calls that have not  *)
(* been answered yet (a bag); each remembers the editor instance     *)
(* that sent it and the handler that awaits it.                            *)
(***************************************************************************)
Views == {"csv", "markdown", "chunks", "schema"}

\* the document the Preview page was opened for
filename == "a.pdf"

NoCsv == [k |-> "none"]

\* the table parsed from a result's csv_content
Csv(used_custom_schema) == [k |-> "csv", used_custom_schema |-> used_custom_schema]

\* the editor is rendered only in the schema tab of the Preview page
Mounted == activeView = "schema"

\* React drops state updates of a component instance that is gone
Live(r) == r.live

\* the component returns the spinner alone while isLoading
Interactive == Mounted /\ ~isLoading

\* the open Modal covers the page with a full-screen overlay
PageInteractive == Interactive /\ ~showSavePrompt

\* the handler step that ran last, and the document it was about
Event(op, file) == [op |-> op, file |-> file]

Pending(call, live, then) == [call |-> call, live |-> live, then |-> then]

\* the requests of an editor instance that unmounts lose their component
Orphaned(bag) ==
    LET orphan(r) == [r EXCEPT !.live = FALSE]
        rs == {orphan(r) : r \in BagToSet(bag)}
        copies(o) == LET S == {r \in BagToSet(bag) : orphan(r) = o}
                         sum[T \in SUBSET S] ==
                             IF T = {} THEN 0
                             ELSE LET x == CHOOSE x \in T : TRUE
                                  IN  CopiesIn(x, bag) + sum[T \ {x}]
                     IN  sum[S]
    IN  [o \in rs |-> copies(o)]

Remove(seq, i) == SubSeq(seq, 1, i - 1) \o SubSeq(seq, i + 1, Len(seq))

\* useState initial values of a fresh editor instance
EditorInitial ==
    /\ fields' = DEFAULT_FIELDS
    /\ isLoading' = TRUE
    /\ isSaving' = FALSE
    /\ isExtracting' = FALSE
    /\ isCustom' = FALSE
    /\ hasChanges' = FALSE
    /\ showSavePrompt' = FALSE

\* schema the server extracts with when no custom schema is stored
DefaultSchemaDocument == DropUndefined(fieldsToJsonSchema(DEFAULT_FIELDS))

\* GET /schema
SchemaResponse == [schema |-> IF srvSchema = JUndef THEN DefaultSchemaDocument ELSE srvSchema,
                   is_custom |-> srvSchema # JUndef]

\* schema an extract call runs with: the call carries none of its own
ExtractionSchema(call) ==
    IF Get(call.params, "use_custom_schema") = JBool(TRUE) /\ srvSchema # JUndef
    THEN srvSchema
    ELSE DefaultSchemaDocument

\* name.trim()
Trim(name) == IF name \in {"", " "} THEN "" ELSE name

emptyNames(fs) == \E i \in 1..Len(fs) : Trim(fs[i].name) = ""

\* variant: the uniqueness check is missing
duplicateNames_unchecked(fs) == FALSE

duplicateNames(fs) == Len(fs) # Cardinality({fs[i].name : i \in 1..Len(fs)})

\* SchemaEditorTable mounts: useState defaults, then the fetchSchema effect
MountEditor ==
    /\ BagCardinality(requests) < MaxInFlight
    /\ EditorInitial
    /\ requests' = requests (+) SetToBag({Pending(getExtractionSchema(filename), TRUE, "fetchSchema")})

UnmountEditor ==
    /\ EditorInitial
    /\ requests' = Orphaned(requests)

\* Preview tab buttons
setActiveView(view) ==
    /\ ~showSavePrompt
    /\ view # activeView
    /\ activeView' = view
    /\ IF view = "schema" THEN MountEditor
       ELSE IF activeView = "schema" THEN UnmountEditor
       ELSE UNCHANGED <<editorState, requests>>
    /\ lastEvent' = Event("setActiveView", filename)
    /\ toast' = ""
    /\ UNCHANGED <<csvData, srvSchema, edits>>

\* fetchSchema, after getExtractionSchema answered
fetchSchemaSettled(r, ok) ==
    /\ BagIn(r, requests)
    /\ r.then = "fetchSchema"
    /\ requests' = (requests (-) SetToBag({r}))
    /\ IF Live(r)
       THEN /\ isLoading' = FALSE
            /\ IF ok
               THEN /\ fields' = jsonSchemaToFields(SchemaResponse.schema)
                    /\ isCustom' = SchemaResponse.is_custom
                    /\ hasChanges' = FALSE
               ELSE UNCHANGED <<fields, isCustom, hasChanges>>
            /\ UNCHANGED <<isSaving, isExtracting, showSavePrompt>>
       ELSE UNCHANGED editorState
    /\ toast' = IF ok THEN "" ELSE "Failed to load extraction schema"
    /\ lastEvent' = Event(IF ok THEN "fetchSchema:ok" ELSE "fetchSchema:error", filename)
    /\ UNCHANGED <<previewVars, srvSchema, edits>>

\* what the modelled user types into a name cell: nothing, or the name of
\* the second default field
EditNames == {"", "amount"}

FieldChanges == {<<"name", n>> : n \in EditNames} \cup {<<"required", b>> : b \in BOOLEAN}

Edited ==
    /\ edits < MaxEdits
    /\ edits' = edits + 1
    /\ hasChanges' = TRUE
    /\ toast' = ""
    /\ UNCHANGED <<previewVars, isLoading, isSaving, isExtracting, isCustom,
                   showSavePrompt, requests, srvSchema>>

handleFieldChange(index, key, value) ==
    /\ PageInteractive
    /\ index \in 1..Len(fields)
    /\ index \in EditIndexes
    /\ fields[index][key] # value
    /\ fields' = [fields EXCEPT ![index] = [@ EXCEPT ![key] = value]]
    /\ lastEvent' = Event("handleFieldChange", filename)
    /\ Edited

handleAddField ==
    /\ PageInteractive
    /\ fields' = Append(fields, Field("", "string", "", FALSE))
    /\ lastEvent' = Event("handleAddField", filename)
    /\ Edited

handleRemoveField(index) ==
    /\ PageInteractive
    /\ index \in 1..Len(fields)
    /\ index \in EditIndexes
    /\ fields' = Remove(fields, index)
    /\ lastEvent' = Event("handleRemoveField", filename)
    /\ Edited

handleMoveField(index, direction) ==
    LET newIndex == IF direction = "up" THEN index - 1 ELSE index + 1 IN
    /\ PageInteractive
    /\ index \in 1..Len(fields)
    /\ index \in EditIndexes
    /\ newIndex \in 1..Len(fields)
    /\ fields' = [fields EXCEPT ![index] = fields[newIndex], ![newIndex] = fields[index]]
    /\ lastEvent' = Event("handleMoveField", filename)
    /\ Edited

\* handleSave up to its await: validation, then the PUT of the schema.
\* `then` names the handler that awaits the call.
handleSaveStart(then) ==
    IF emptyNames(fields)
    THEN /\ toast' = "All fields must have a name"
         /\ UNCHANGED <<isSaving, requests>>
    ELSE IF duplicateNames(fields)
    THEN /\ toast' = "Field names must be unique"
         /\ UNCHANGED <<isSaving, requests>>
    ELSE /\ BagCardinality(requests) < MaxInFlight
         /\ isSaving' = TRUE
         /\ requests' = requests (+) SetToBag({Pending(updateExtractionSchema(filename, fieldsToJsonSchema(fields)), TRUE, then)})
         /\ toast' = ""

\* Save button
handleSave ==
    /\ PageInteractive
    /\ ~isSaving /\ ~isExtracting /\ hasChanges
    /\ handleSaveStart("handleSave")
    /\ lastEvent' = Event("handleSave", filename)
    /\ UNCHANGED <<previewVars, fields, isLoading, isExtracting, isCustom,
                   hasChanges, showSavePrompt, srvSchema, edits>>

\* variant: isSaving is cleared in the try block instead of in finally
handleSaveSettled_noFinally(r, ok) ==
    /\ BagIn(r, requests)
    /\ r.then = "handleSave"
    /\ requests' = (requests (-) SetToBag({r}))
    /\ srvSchema' = IF ok THEN DropUndefined(Get(r.call.body, "schema")) ELSE srvSchema
    /\ IF Live(r)
       THEN /\ isCustom' = IF ok THEN TRUE ELSE isCustom
            /\ hasChanges' = IF ok THEN FALSE ELSE hasChanges
            /\ isSaving' = IF ok THEN FALSE ELSE isSaving
       ELSE UNCHANGED <<isCustom, hasChanges, isSaving>>
    /\ toast' = IF ok THEN "Schema saved successfully" ELSE "Failed to save schema"
    /\ lastEvent' = Event(IF ok THEN "handleSave:ok" ELSE "handleSave:error", filename)
    /\ UNCHANGED <<previewVars, fields, isLoading, isExtracting, showSavePrompt,
                   edits>>

\* handleSave after updateExtractionSchema answered (Save button)
handleSaveSettled(r, ok) ==
    /\ BagIn(r, requests)
    /\ r.then = "handleSave"
    /\ requests' = (requests (-) SetToBag({r}))
    /\ srvSchema' = IF ok THEN DropUndefined(Get(r.call.body, "schema")) ELSE srvSchema
    /\ IF Live(r)
       THEN /\ isCustom' = IF ok THEN TRUE ELSE isCustom
            /\ hasChanges' = IF ok THEN FALSE ELSE hasChanges
            /\ isSaving' = FALSE
       ELSE UNCHANGED <<isCustom, hasChanges, isSaving>>
    /\ toast' = IF ok THEN "Schema saved successfully" ELSE "Failed to save schema"
    /\ lastEvent' = Event(IF ok THEN "handleSave:ok" ELSE "handleSave:error", filename)
    /\ UNCHANGED <<previewVars, fields, isLoading, isExtracting, showSavePrompt,
                   edits>>

\* Reset button (shown only for a custom schema)
handleResetToDefault ==
    /\ PageInteractive
    /\ isCustom
    /\ ~isSaving /\ ~isExtracting
    /\ BagCardinality(requests) < MaxInFlight
    /\ isSaving' = TRUE
    /\ requests' = requests (+) SetToBag({Pending(deleteExtractionSchema(filename), TRUE, "handleResetToDefault")})
    /\ lastEvent' = Event("handleResetToDefault", filename)
    /\ toast' = ""
    /\ UNCHANGED <<previewVars, fields, isLoading, isExtracting, isCustom, hasChanges,
                   showSavePrompt, srvSchema, edits>>

\* variant: the reset is applied to the editor before the server confirms it
handleResetSettled_failureResets(r, ok) ==
    /\ BagIn(r, requests)
    /\ r.then = "handleResetToDefault"
    /\ requests' = (requests (-) SetToBag({r}))
    /\ srvSchema' = IF ok THEN JUndef ELSE srvSchema
    /\ IF Live(r)
       THEN /\ fields' = DEFAULT_FIELDS
            /\ isCustom' = FALSE
            /\ hasChanges' = FALSE
            /\ isSaving' = FALSE
       ELSE UNCHANGED <<fields, isCustom, hasChanges, isSaving>>
    /\ toast' = IF ok THEN "Reset to default schema" ELSE "Failed to reset schema"
    /\ lastEvent' = Event(IF ok THEN "handleResetToDefault:ok" ELSE "handleResetToDefault:error", filename)
    /\ UNCHANGED <<previewVars, isLoading, isExtracting, showSavePrompt, edits>>

\* handleResetToDefault after deleteExtractionSchema answered
handleResetSettled(r, ok) ==
    /\ BagIn(r, requests)
    /\ r.then = "handleResetToDefault"
    /\ requests' = (requests (-) SetToBag({r}))
    /\ srvSchema' = IF ok THEN JUndef ELSE srvSchema
    /\ IF Live(r)
       THEN /\ fields' = IF ok THEN DEFAULT_FIELDS ELSE fields
            /\ isCustom' = IF ok THEN FALSE ELSE isCustom
            /\ hasChanges' = IF ok THEN FALSE ELSE hasChanges
            /\ isSaving' = FALSE
       ELSE UNCHANGED <<fields, isCustom, hasChanges, isSaving>>
    /\ toast' = IF ok THEN "Reset to default schema" ELSE "Failed to reset schema"
    /\ lastEvent' = Event(IF ok THEN "handleResetToDefault:ok" ELSE "handleResetToDefault:error", filename)
    /\ UNCHANGED <<previewVars, isLoading, isExtracting, showSavePrompt, edits>>

\* setIsExtracting(true); extractTransactions(folderId, filename, true)
StartExtract(live, then, pending) ==
    /\ BagCardinality(pending) < MaxInFlight
    /\ requests' = pending (+) SetToBag({Pending(extractTransactions(filename, TRUE), live, then)})

\* variant: the Extract button does not look at hasChanges
handleExtract_noPrompt ==
    /\ PageInteractive
    /\ ~isExtracting
    /\ isExtracting' = TRUE
    /\ StartExtract(TRUE, "handleExtract", requests)
    /\ lastEvent' = Event("handleExtract", filename)
    /\ toast' = ""
    /\ UNCHANGED <<previewVars, fields, isLoading, isSaving, isCustom, hasChanges,
                   showSavePrompt, srvSchema, edits>>

\* Extract Transactions button
handleExtract ==
    /\ PageInteractive
    /\ ~isExtracting
    /\ IF hasChanges
       THEN /\ showSavePrompt' = TRUE
            /\ UNCHANGED <<isExtracting, requests>>
       ELSE /\ isExtracting' = TRUE
            /\ StartExtract(TRUE, "handleExtract", requests)
            /\ UNCHANGED showSavePrompt
    /\ lastEvent' = Event("handleExtract", filename)
    /\ toast' = ""
    /\ UNCHANGED <<previewVars, fields, isLoading, isSaving, isCustom, hasChanges,
                   srvSchema, edits>>

\* Cancel button, click on the overlay, Escape key
closeSavePrompt ==
    /\ Interactive
    /\ showSavePrompt
    /\ showSavePrompt' = FALSE
    /\ lastEvent' = Event("closeSavePrompt", filename)
    /\ toast' = ""
    /\ UNCHANGED <<previewVars, fields, isLoading, isSaving, isExtracting, isCustom,
                   hasChanges, requests, srvSchema, edits>>

\* Extract Without Saving button of the prompt
extractWithoutSaving ==
    /\ Interactive
    /\ showSavePrompt
    /\ showSavePrompt' = FALSE
    /\ isExtracting' = TRUE
    /\ StartExtract(TRUE, "extractWithoutSaving", requests)
    /\ lastEvent' = Event("extractWithoutSaving", filename)
    /\ toast' = ""
    /\ UNCHANGED <<previewVars, fields, isLoading, isSaving, isCustom, hasChanges,
                   srvSchema, edits>>

\* Save and Extract button of the prompt, up to the first await that
\* suspends: a failed validation resolves handleSave at once and the
\* handler goes on to extract.
handleSaveAndExtract ==
    /\ Interactive
    /\ showSavePrompt
    /\ ~isSaving
    /\ showSavePrompt' = FALSE
    /\ IF emptyNames(fields) \/ duplicateNames(fields)
       THEN /\ toast' = IF emptyNames(fields) THEN "All fields must have a name"
                        ELSE "Field names must be unique"
            /\ isExtracting' = TRUE
            /\ StartExtract(TRUE, "handleSaveAndExtract", requests)
            /\ UNCHANGED isSaving
       ELSE /\ handleSaveStart("handleSaveAndExtract")
            /\ UNCHANGED isExtracting
    /\ lastEvent' = Event("handleSaveAndExtract", filename)
    /\ UNCHANGED <<previewVars, fields, isLoading, isCustom, hasChanges,
                   srvSchema, edits>>

\* handleSaveAndExtract after its handleSave settled: the extract follows
\* whatever the outcome of the save
handleSaveAndExtractSaved(r, ok) ==
    /\ BagIn(r, requests)
    /\ r.then = "handleSaveAndExtract"
    /\ r.call.endpoint = "schema"
    /\ StartExtract(r.live, "handleSaveAndExtract", (requests (-) SetToBag({r})))
    /\ srvSchema' = IF ok THEN DropUndefined(Get(r.call.body, "schema")) ELSE srvSchema
    /\ IF Live(r)
       THEN /\ isCustom' = IF ok THEN TRUE ELSE isCustom
            /\ hasChanges' = IF ok THEN FALSE ELSE hasChanges
            /\ isSaving' = FALSE
            /\ isExtracting' = TRUE
       ELSE UNCHANGED <<isCustom, hasChanges, isSaving, isExtracting>>
    /\ toast' = IF ok THEN "Schema saved successfully" ELSE "Failed to save schema"
    /\ lastEvent' = Event(IF ok THEN "handleSaveAndExtract:saved" ELSE "handleSaveAndExtract:saveError", filename)
    /\ UNCHANGED <<previewVars, fields, isLoading, showSavePrompt, edits>>

\* variant: a failed extraction clears the results on display
extractSettled_failureClearsCsv(r, ok, empty) ==
    /\ BagIn(r, requests)
    /\ r.call.endpoint = "extract"
    /\ requests' = IF ok /\ Mounted THEN Orphaned(requests (-) SetToBag({r}))
                   ELSE requests (-) SetToBag({r})
    /\ IF ok
       THEN /\ ~empty => csvData' = Csv(ExtractionSchema(r.call) = srvSchema)
            /\ empty => csvData' = csvData
            /\ activeView' = "csv"
            /\ IF Mounted THEN EditorInitial ELSE UNCHANGED editorState
            /\ toast' = "Successfully extracted transactions"
       ELSE /\ ~empty
            /\ isExtracting' = IF Live(r) THEN FALSE ELSE isExtracting
            /\ toast' = "Extraction failed. Please try again."
            /\ csvData' = NoCsv
            /\ UNCHANGED <<activeView, fields, isLoading, isSaving, isCustom, hasChanges,
                           showSavePrompt>>
    /\ srvExtracted' = IF ok THEN srvExtracted \cup {filename} ELSE srvExtracted
    /\ lastEvent' = Event(IF ok THEN "extract:ok" ELSE "extract:error", filename)
    /\ UNCHANGED <<srvSchema, edits>>

\* an extract call answered: the rest of handleExtract, handleSaveAndExtract
\* or the Extract Without Saving promise chain, and on success the Preview's
\* handleExtractionComplete, which leaves the schema tab.  `empty` is a
\* result without csv_content.
extractSettled(r, ok, empty) ==
    /\ BagIn(r, requests)
    /\ r.call.endpoint = "extract"
    /\ requests' = IF ok /\ Mounted THEN Orphaned(requests (-) SetToBag({r}))
                   ELSE requests (-) SetToBag({r})
    /\ IF ok
       THEN /\ ~empty => csvData' = Csv(ExtractionSchema(r.call) = srvSchema)
            /\ empty => csvData' = csvData
            /\ activeView' = "csv"
            /\ IF Mounted THEN EditorInitial ELSE UNCHANGED editorState
            /\ toast' = "Successfully extracted transactions"
       ELSE /\ ~empty
            /\ isExtracting' = IF Live(r) THEN FALSE ELSE isExtracting
            /\ toast' = "Extraction failed. Please try again."
            /\ UNCHANGED <<previewVars, fields, isLoading, isSaving, isCustom, hasChanges,
                           showSavePrompt>>
    /\ srvExtracted' = IF ok THEN srvExtracted \cup {filename} ELSE srvExtracted
    /\ lastEvent' = Event(IF ok THEN "extract:ok" ELSE "extract:error", filename)
    /\ UNCHANGED <<srvSchema, edits>>

\* no ProcessingProgress has been mounted
PollerIdle ==
    /\ pollerId = 0
    /\ pollPhase = "Parsing"
    /\ pollInterval = FALSE

(***************************************************************************)
(* Chunk overlays of the Preview page: the parse metadata lists chunks,    *)
(* each page of the PDF shows the chunks located on it, and a click on a   *)
(* chunk selects it and scrolls to its page.  Pages are counted from 0.    *)
(***************************************************************************)
NoPage == -1

\* `x ?? y`
Coalesce(x, y) == IF x.k \in {"undefined", "null"} THEN y ELSE x

\* variant: only the legacy page_number locates a chunk
ChunkPage_legacyOnly(chunk) == Coalesce(Get(chunk, "page_number"), JNum(0))

\* chunk.grounding?.page ?? chunk.page_number ?? 0, the same expression in
\* getChunksForPage, in handleChunkClick and in the chunk list
ChunkPage(chunk) ==
    Coalesce(Coalesce(OptGet(Get(chunk, "grounding"), "page"), Get(chunk, "page_number")),
             JNum(0))

getChunksForPage(meta, pageNum) ==
    IF ~Truthy(OptGet(meta, "chunks")) THEN <<>>
    ELSE SelectSeq(Get(meta, "chunks").v, LAMBDA chunk : ChunkPage(chunk) = JNum(pageNum))

\* what the page shows: for each rendered page, the chunks laid over it
Render(meta, n) == [index \in 0..(n - 1) |-> getChunksForPage(meta, index)]

PageNumbers == {0, 1}

ChunkIds == {JUndef, JStr("c1")}

ParsedChunks ==
    { JObj(<< Entry("id", id), Entry("page_number", pn), Entry("grounding", g) >>) :
        id \in ChunkIds,
        pn \in {JUndef} \cup {JNum(p) : p \in PageNumbers},
        g \in {JUndef} \cup {JObj(<< Entry("page", JNum(p)) >>) : p \in PageNumbers} }

ChunkLists == UNION {[1..n -> ParsedChunks] : n \in 0..MaxChunks}

FileMetadata(chunks) == JObj(<< Entry("chunks", JArr(chunks)) >>)

ChunksIdle ==
    /\ metadata = JNull
    /\ numPages = 0
    /\ selectedChunkId = JNull
    /\ clickedChunk = JNull
    /\ scrolledTo = NoPage
    /\ overlays = <<>>

\* the metadata request of the page load is answered
metadataLoaded(chunks) ==
    /\ metadata = JNull
    /\ metadata' = FileMetadata(chunks)
    /\ overlays' = Render(metadata', numPages)
    /\ UNCHANGED <<numPages, selectedChunkId, clickedChunk, scrolledTo>>

onDocumentLoadSuccess(n) ==
    /\ numPages = 0
    /\ numPages' = n
    /\ overlays' = Render(metadata, numPages')
    /\ UNCHANGED <<metadata, selectedChunkId, clickedChunk, scrolledTo>>

\* clickedChunk and scrolledTo record the last click: the chunk and the page
\* whose element was scrolled into view, NoPage when no such page is rendered
handleChunkClick(i) ==
    /\ Truthy(OptGet(metadata, "chunks"))
    /\ i \in 1..Len(Get(metadata, "chunks").v)
    /\ LET chunk == Get(metadata, "chunks").v[i]
           page == ChunkPage(chunk).n
       IN  /\ selectedChunkId' = OrElse(Get(chunk, "id"), JStr(""))
           /\ clickedChunk' = chunk
           /\ scrolledTo' = IF page + 1 <= numPages THEN page ELSE NoPage
    /\ overlays' = Render(metadata, numPages)
    /\ UNCHANGED <<metadata, numPages>>

(***************************************************************************)
(* PDF viewer of the Preview page: zoom, captured page dimensions and the  *)
(* overlay rectangle of a chunk.  One page and one chunk are followed.     *)
(* Numbers are integers: the scale is counted in hundredths (1.0 is 100),  *)
(* box coordinates in tenths of the page (0.1 is 1), lengths in pixels.    *)
(***************************************************************************)
\* scale step of the zoom buttons, 0.25
ZoomStep == 25

\* smallest and largest scale of the zoom buttons, 0.5 and 3.0
MinScale == 50

MaxScale == 300

\* scale after reset and on mount, 1.0
DefaultScale == 100

\* page width that fit-to-width assumes
NominalWidth == 850

\* padding taken off the container's clientWidth
ContainerPadding == 32

Min(a, b) == IF a < b THEN a ELSE b

Max(a, b) == IF a > b THEN a ELSE b

NoDims == [width |-> 0, height |-> 0]

NoBox == JUndef

NoRect == JNull

\* size of the page of the document at scale 1.0
PageSize == [width |-> 800, height |-> 1000]

\* clientWidth of the container after a window resize
ClientWidths == {372, 1307}

BoundingBox(left, top, right, bottom) ==
    [left |-> left, top |-> top, right |-> right, bottom |-> bottom]

BoundingBoxes ==
    { BoundingBox(1, 2, 4, 3), BoundingBox(0, 0, 10, 10), BoundingBox(5, 5, 6, 9) }

\* the canvas react-pdf draws for the page at a scale
CanvasAt(s) ==
    [width |-> (PageSize.width * s) \div 100, height |-> (PageSize.height * s) \div 100]

\* variant: width and height are taken from the right and bottom edges
OverlayStyle_edges(box) ==
    [left |-> box.left * 10, top |-> box.top * 10,
     width |-> box.right * 10, height |-> box.bottom * 10]

\* the style of the overlay box in percent of its container: `${x * 100}%`
\* of a coordinate counted in tenths is 10 times the count
OverlayStyle(box) ==
    [left |-> box.left * 10, top |-> box.top * 10,
     width |-> (box.right - box.left) * 10, height |-> (box.bottom - box.top) * 10]

\* the browser resolves the percentages against the overlay container,
\* which is sized dims.width by dims.height
Resolve(style, dims) ==
    [x |-> (style.left * dims.width) \div 100,
     y |-> (style.top * dims.height) \div 100,
     width |-> (style.width * dims.width) \div 100,
     height |-> (style.height * dims.height) \div 100]

\* the overlay of the chunk as the page draws it
RenderOverlay(show, dims, box) ==
    IF show /\ dims # NoDims /\ box # NoBox THEN Resolve(OverlayStyle(box), dims) ELSE NoRect

ViewerIdle ==
    /\ scale = DefaultScale
    /\ containerWidth = 0
    /\ canvasRect = NoDims
    /\ pageDimensions = NoDims
    /\ recapturePending = FALSE
    /\ showBoundingBoxes = TRUE
    /\ chunkBox = NoBox
    /\ overlayRect = NoRect

\* every step ends with a render of the overlay from the new state
Rendered == overlayRect' = RenderOverlay(showBoundingBoxes', pageDimensions', chunkBox)

\* setScale, and the effect on [scale] arms the recapture timer
SetScale(s) ==
    /\ scale' = s
    /\ recapturePending' = (s # scale \/ recapturePending)
    /\ UNCHANGED <<containerWidth, canvasRect, pageDimensions, showBoundingBoxes, chunkBox>>
    /\ Rendered

handleZoomIn ==
    /\ scale < MaxScale
    /\ SetScale(Min(scale + ZoomStep, MaxScale))

handleZoomOut ==
    /\ scale > MinScale
    /\ SetScale(Max(scale - ZoomStep, MinScale))

handleResetZoom == SetScale(DefaultScale)

handleFitToWidth ==
    /\ containerWidth > 0
    /\ SetScale((containerWidth * 100) \div NominalWidth)

\* the resize listener
updateWidth(clientWidth) ==
    /\ containerWidth' = clientWidth - ContainerPadding
    /\ UNCHANGED <<scale, canvasRect, pageDimensions, recapturePending, showBoundingBoxes,
                   chunkBox>>
    /\ Rendered

toggleBoundingBoxes ==
    /\ showBoundingBoxes' = ~showBoundingBoxes
    /\ UNCHANGED <<scale, containerWidth, canvasRect, pageDimensions, recapturePending, chunkBox>>
    /\ Rendered

\* react-pdf has drawn the page at the current scale and calls
\* onRenderSuccess
handlePageRenderSuccess ==
    /\ canvasRect # CanvasAt(scale)
    /\ canvasRect' = CanvasAt(scale)
    /\ pageDimensions' = canvasRect'
    /\ UNCHANGED <<scale, containerWidth, recapturePending, showBoundingBoxes, chunkBox>>
    /\ Rendered

\* the timer of the effect on [scale] measures the canvas as it is
recaptureTimer ==
    /\ recapturePending
    /\ recapturePending' = FALSE
    /\ pageDimensions' = IF canvasRect # NoDims THEN canvasRect ELSE pageDimensions
    /\ UNCHANGED <<scale, containerWidth, canvasRect, showBoundingBoxes, chunkBox>>
    /\ Rendered

(***************************************************************************)
(* Amount normalizer (backend Transaction model, normalize_transaction_    *)
(* amount): three encodings of a transaction amount are reduced to one     *)
(* signed string with two decimals.  Text is a sequence of characters.     *)
(***************************************************************************)
Digits == {"0", "1", "2", "3", "4", "5", "6", "7", "8", "9"}

AmountError == <<"error">>

Upper(c) ==
    CASE c = "d" -> "D"
      [] c = "r" -> "R"
      [] c = "c" -> "C"
      [] OTHER -> c

UpperText(text) == [i \in 1..Len(text) |-> Upper(text[i])]

Strip(text) == SelectSeq(text, LAMBDA c : c # " ")

AllDigits(text) == \A i \in 1..Len(text) : text[i] \in Digits

\* magnitude with thousands separators removed and two decimals, or
\* AmountError when the text is not a number
ParseMagnitude(text) ==
    LET plain == SelectSeq(text, LAMBDA c : c # ",")
        dots == {i \in 1..Len(plain) : plain[i] = "."}
        dot == IF dots = {} THEN Len(plain) + 1 ELSE CHOOSE i \in dots : TRUE
        whole == SubSeq(plain, 1, dot - 1)
        frac == SubSeq(plain, dot + 1, Len(plain))
    IN  IF \/ Cardinality(dots) > 1
           \/ Len(whole) = 0
           \/ ~AllDigits(whole)
           \/ ~AllDigits(frac)
           \/ Len(frac) > 2
        THEN AmountError
        ELSE whole \o <<".">> \o frac \o [i \in 1..(2 - Len(frac)) |-> "0"]

\* the sign of an indicator token: Dr is a debit, Cr a credit
IndicatorSign(indicator) ==
    CASE UpperText(Strip(indicator)) = <<"D", "R">> -> "-"
      [] UpperText(Strip(indicator)) = <<"C", "R">> -> "+"
      [] OTHER -> ""

\* a raw amount split into the sign its notation encodes and the rest
RawSign(raw) ==
    LET t == Strip(raw)
        n == Len(t)
    IN  IF n >= 1 /\ t[1] = "-" THEN [sign |-> "-", rest |-> SubSeq(t, 2, n)]
        ELSE IF n >= 1 /\ t[1] = "+" THEN [sign |-> "+", rest |-> SubSeq(t, 2, n)]
        ELSE IF n >= 2 /\ t[1] = "(" /\ t[n] = ")" THEN [sign |-> "-", rest |-> SubSeq(t, 2, n - 1)]
        ELSE IF n >= 2 /\ IndicatorSign(SubSeq(t, n - 1, n)) # ""
             THEN [sign |-> IndicatorSign(SubSeq(t, n - 1, n)), rest |-> SubSeq(t, 1, n - 2)]
        ELSE [sign |-> "+", rest |-> t]

Signed(sign, magnitude) == IF magnitude = AmountError THEN AmountError ELSE <<sign>> \o magnitude

Populated(text) == Len(Strip(text)) > 0

\* variant: an ambiguous pair of split columns becomes a zero amount
SplitColumns_zeroDefault(credit, debit) ==
    IF Populated(credit) /\ ~Populated(debit) THEN Signed("+", ParseMagnitude(Strip(credit)))
    ELSE IF Populated(debit) /\ ~Populated(credit) THEN Signed("-", ParseMagnitude(Strip(debit)))
    ELSE <<"+", "0", ".", "0", "0">>

SplitColumns(credit, debit) ==
    IF Populated(credit) /\ ~Populated(debit) THEN Signed("+", ParseMagnitude(Strip(credit)))
    ELSE IF Populated(debit) /\ ~Populated(credit) THEN Signed("-", ParseMagnitude(Strip(debit)))
    ELSE AmountError

normalize_transaction_amount(tx) ==
    IF Populated(tx.raw_amount) /\ IndicatorSign(tx.type_indicator) # ""
    THEN Signed(IndicatorSign(tx.type_indicator), ParseMagnitude(RawSign(tx.raw_amount).rest))
    ELSE IF Populated(tx.raw_amount)
    THEN Signed(RawSign(tx.raw_amount).sign, ParseMagnitude(RawSign(tx.raw_amount).rest))
    ELSE SplitColumns(tx.credit_amount, tx.debit_amount)

Indicators == { <<>>, <<"D", "r">>, <<"C", "r">>, <<"d", "r">> }

RawAmounts ==
    { <<>>, <<"2", "0", ".", "0", "0">>, <<"-", "5", "0">>, <<"(", "7", "5", ".", "0", "0", ")">>,
      <<"2", "0", ".", "5", " ", "D", "r">>, <<"1", ",", "2", "3", "4", ".", "5", "C", "r">>,
      <<"n", "/", "a">> }

ColumnAmounts == { <<>>, <<"1", "0", "0", ".", "0", "0">>, <<"5", "0", ".", "0", "0">>, <<"x">> }

Transactions ==
    [type_indicator : Indicators, raw_amount : RawAmounts,
     credit_amount : ColumnAmounts, debit_amount : ColumnAmounts]

NoTransaction ==
    [type_indicator |-> <<>>, raw_amount |-> <<>>, credit_amount |-> <<>>, debit_amount |-> <<>>]

AmountIdle ==
    /\ aPc = "off"
    /\ aTransaction = NoTransaction
    /\ aAmount = <<>>

(***************************************************************************)
(* Failure reports of the long-running calls: axios rejects a parse or     *)
(* extract call, the response interceptor turns the rejection into an      *)
(* ApiError, and the catch block of the caller reports it.                 *)
(***************************************************************************)
NoResponse == JUndef

AxiosError(response, message) == [response |-> response, message |-> message]

\* axios gives up after the client's timeout: no response, code ECONNABORTED
TimeoutError == AxiosError(NoResponse, "timeout of 900000ms exceeded")

Detail(msg) == JObj(<< Entry("msg", JStr(msg)) >>)

ServerMessages == {"File not found", "Extraction service unavailable"}

\* bodies of failure responses: FastAPI validation errors (detail is an
\* array), HTTPException (detail is a string), and bodies of another shape
ResponseBodies ==
    { JObj(<< Entry("detail", JArr(<< Detail(m) >>)) >>) : m \in ServerMessages }
        \cup { JObj(<< Entry("detail", JArr(<<>>)) >>) }
        \cup { JObj(<< Entry("detail", JStr(m)) >>) : m \in ServerMessages }
        \cup { JObj(<<>>), JStr("<html>"), JUndef }

StatusCodes == {400, 404, 422, 500, 502}

StatusMessage(status) ==
    CASE status = 400 -> "Request failed with status code 400"
      [] status = 404 -> "Request failed with status code 404"
      [] status = 422 -> "Request failed with status code 422"
      [] status = 500 -> "Request failed with status code 500"
      [] OTHER -> "Request failed with status code 502"

AxiosErrors ==
    { TimeoutError, AxiosError(NoResponse, "Network Error"), AxiosError(NoResponse, "") }
        \cup { AxiosError([status |-> s, data |-> d], StatusMessage(s)) :
                 s \in StatusCodes, d \in ResponseBodies }

\* the ApiError the interceptor rejects with
errorInterceptor(error) ==
    LET data == IF error.response = NoResponse THEN JUndef ELSE error.response.data
    IN  IF Truthy(data) /\ Get(data, "detail").k = "array" THEN data
        ELSE IF Truthy(data) /\ Get(data, "detail").k = "string"
        THEN JObj(<< Entry("detail", JArr(<< Detail(Get(data, "detail").v) >>)) >>)
        ELSE JObj(<< Entry("detail",
                           JArr(<< Detail(IF error.message # "" THEN error.message
                                          ELSE "An unexpected network error occurred.") >>)) >>)

\* error.detail?.[0]?.msg
FirstMessage(apiError) ==
    LET detail == OptGet(apiError, "detail")
    IN  IF detail.k = "array" /\ Len(detail.v) > 0 THEN OptGet(detail.v[1], "msg") ELSE JUndef

LongRunningCalls == {"parse", "extract"}

\* what the catch block of the caller shows: the toast and, for a parse,
\* the status of the document
handleAnalyzeCatch(apiError) ==
    [toast |-> OrElse(FirstMessage(apiError), JStr("Parsing failed.")).v, status |-> "error"]

handleExtractCatch(apiError) ==
    [toast |-> "Extraction failed. Please try again.", status |-> ""]

Reported(call, apiError) ==
    IF call = "parse" THEN handleAnalyzeCatch(apiError) ELSE handleExtractCatch(apiError)

NoReport == [toast |-> "", status |-> ""]

ReportIdle ==
    /\ rPc = "off"
    /\ rCall = ""
    /\ rError = AxiosError(NoResponse, "")
    /\ rRejection = JUndef
    /\ rReport = NoReport

TranslatorIdle ==
    /\ tPc = "off"
    /\ tFields = <<>>
    /\ tSchema = JUndef
    /\ tBack = <<>>
    /\ tLogged = FALSE

Docs == {"a.pdf", "b.pdf"}

\* the document the modelled user deletes
DeleteTargets == {"b.pdf"}

NoFile == ""

NoFolder == [k |-> "null"]

Folder(files) == [k |-> "folder", files |-> files]

\* the folder workspace while the Preview page of a parsed document is open
FolderIdle ==
    /\ route = "preview"
    /\ folder = NoFolder
    /\ folderIsLoading = TRUE
    /\ isUploading = FALSE
    /\ processingStatus = [d \in Docs |-> "unset"]
    /\ parsingFile = NoFile
    /\ deleteModalOpen = FALSE
    /\ fileToDelete = NoFile
    /\ isDeleting = FALSE
    /\ srvFiles = {filename}
    /\ srvParsed = {filename}
    /\ srvExtracted = {}

\* The Preview page has loaded a document that was just parsed: nothing has
\* been extracted and no custom schema is stored, so its effect has switched
\* to the schema tab and a fresh editor is fetching the schema.
InitEditor ==
    /\ TranslatorIdle
    /\ PollerIdle
    /\ ChunksIdle
    /\ ViewerIdle
    /\ AmountIdle
    /\ ReportIdle
    /\ FolderIdle
    /\ srvSchema = JUndef
    /\ csvData = NoCsv
    /\ activeView = "schema"
    /\ requests = SetToBag({Pending(getExtractionSchema(filename), TRUE, "fetchSchema")})
    /\ fields = DEFAULT_FIELDS
    /\ isLoading = TRUE
    /\ isSaving = FALSE
    /\ isExtracting = FALSE
    /\ isCustom = FALSE
    /\ hasChanges = FALSE
    /\ showSavePrompt = FALSE
    /\ toast = ""
    /\ lastEvent = Event("init", "")
    /\ edits = 0

NextEditor ==
    /\ \/ /\ UNCHANGED srvExtracted
          /\ \/ \E view \in Views : setActiveView(view)
             \/ \E r \in BagToSet(requests), ok \in BOOLEAN : fetchSchemaSettled(r, ok)
             \/ \E index \in EditIndexes, c \in FieldChanges : handleFieldChange(index, c[1], c[2])
             \/ handleAddField
             \/ \E index \in EditIndexes : handleRemoveField(index)
             \/ \E index \in EditIndexes, direction \in {"up", "down"} :
                    handleMoveField(index, direction)
             \/ handleSave
             \/ \E r \in BagToSet(requests), ok \in BOOLEAN : handleSaveSettled(r, ok)
             \/ handleResetToDefault
             \/ \E r \in BagToSet(requests), ok \in BOOLEAN : handleResetSettled(r, ok)
             \/ handleExtract
             \/ closeSavePrompt
             \/ extractWithoutSaving
             \/ handleSaveAndExtract
             \/ \E r \in BagToSet(requests), ok \in BOOLEAN : handleSaveAndExtractSaved(r, ok)
       \/ \E r \in BagToSet(requests), ok \in BOOLEAN, empty \in BOOLEAN : extractSettled(r, ok, empty)
    /\ UNCHANGED <<translatorVars, route, folderState, srvFiles, srvParsed, pollerVars, chunkVars, viewerVars, amountVars, reportVars>>

SpecEditor == InitEditor /\ [][NextEditor]_vars

\* The same editor a moment later: the schema was fetched (none is stored,
\* so the default fields are shown) and the user has cleared the "required"
\* box of the first field, which has not been saved yet.
InitEditorEdited ==
    /\ TranslatorIdle
    /\ PollerIdle
    /\ ChunksIdle
    /\ ViewerIdle
    /\ AmountIdle
    /\ ReportIdle
    /\ FolderIdle
    /\ srvSchema = JUndef
    /\ csvData = NoCsv
    /\ activeView = "schema"
    /\ requests = EmptyBag
    /\ fields = [DEFAULT_FIELDS EXCEPT ![1] = [@ EXCEPT !.required = FALSE]]
    /\ isLoading = FALSE
    /\ isSaving = FALSE
    /\ isExtracting = FALSE
    /\ isCustom = FALSE
    /\ hasChanges = TRUE
    /\ showSavePrompt = FALSE
    /\ toast = ""
    /\ lastEvent = Event("handleFieldChange", filename)
    /\ edits = 0

SpecEditorEdited == InitEditorEdited /\ [][NextEditor]_vars

\* the server answers the call r of the mounted editor, or axios gives up on
\* it (apiClient after 30 s, longRunningClient after 15 min)
Answered(r) ==
    /\ \/ /\ UNCHANGED srvExtracted
          /\ \E ok \in BOOLEAN :
                \/ fetchSchemaSettled(r, ok)
                \/ handleSaveSettled(r, ok)
                \/ handleResetSettled(r, ok)
                \/ handleSaveAndExtractSaved(r, ok)
       \/ \E ok \in BOOLEAN, empty \in BOOLEAN : extractSettled(r, ok, empty)
    /\ UNCHANGED <<translatorVars, route, folderState, srvFiles, srvParsed, pollerVars, chunkVars, viewerVars, amountVars, reportVars>>

RemoteCallResponds(endpoint) ==
    \E r \in BagToSet(requests) : Live(r) /\ r.call.endpoint = endpoint /\ Answered(r)

\* The editor under the assumption that every remote call of the mounted
\* editor eventually responds; nothing is assumed about what the user does.
SpecEditorResponsive ==
    /\ InitEditor
    /\ [][NextEditor]_vars
    /\ WF_vars(RemoteCallResponds("schema"))
    /\ WF_vars(RemoteCallResponds("extract"))

(***************************************************************************)
(* Folder workspace (FolderWorkspace): the document list of one folder,    *)
(* where documents are uploaded, parsed and deleted.  The state of the     *)
(* page is kept as it was left while another route is shown and is         *)
(* re-created when the page is opened again.                               *)
(***************************************************************************)
ProcessingStatus == {"idle", "parsing", "parsed", "extracted", "error"}

\* processingStatus[filename] || 'idle'
StatusOf(d) == IF processingStatus[d] = "unset" THEN "idle" ELSE processingStatus[d]

FolderMounted == route = "folder"

\* the skeleton and "Project not found." have no controls; the open delete
\* Modal covers the page
FolderInteractive ==
    /\ FolderMounted
    /\ ~folderIsLoading
    /\ folder # NoFolder
    /\ ~deleteModalOpen

Listed(d) == folder # NoFolder /\ d \in folder.files

\* isProcessed, then isParsed, as the server answers them
DerivedStatus(d) ==
    IF d \in srvExtracted THEN "extracted"
    ELSE IF d \in srvParsed THEN "parsed" ELSE "idle"

\* the isProcessed / isParsed checks of one fetchFolderDetails, and the
\* statuses the server has answered them with (NoAnswer before it has)
NoAnswer == [k |-> "pending"]

Answer(statuses) == [k |-> "answered", statuses |-> statuses]

StatusChecks(files, live, answer) ==
    [call |-> Request("GET", "status", files, JUndef, JUndef), live |-> live,
     then |-> "fetchFolderDetails", answer |-> answer]

\* fetchFolderDetails up to getFolderDetails
fetchFolderDetails(live, pending) ==
    /\ BagCardinality(pending) < MaxInFlight
    /\ requests' = pending (+) SetToBag({Pending(getFolderDetails, live, "fetchFolderDetails")})

\* the router shows the folder page: useState defaults, then the effect
openFolder ==
    /\ route # "folder"
    /\ route' = "folder"
    /\ folder' = NoFolder
    /\ folderIsLoading' = TRUE
    /\ isUploading' = FALSE
    /\ processingStatus' = [d \in Docs |-> "unset"]
    /\ parsingFile' = NoFile
    /\ deleteModalOpen' = FALSE
    /\ fileToDelete' = NoFile
    /\ isDeleting' = FALSE
    /\ fetchFolderDetails(TRUE, requests)
    /\ toast' = ""
    /\ lastEvent' = Event("openFolder", NoFile)
    /\ UNCHANGED serverFiles

\* Review & Extract / Preview button
handlePreview(d) ==
    /\ FolderInteractive
    /\ Listed(d)
    /\ StatusOf(d) \in {"parsed", "extracted"}
    /\ route' = "preview"
    /\ requests' = Orphaned(requests)
    /\ toast' = ""
    /\ lastEvent' = Event("handlePreview", d)
    /\ UNCHANGED <<folderState, serverFiles>>

\* an extraction run from the Preview page has stored its result
previewExtractionDone(d) ==
    /\ route = "preview"
    /\ d \in srvFiles \cap srvParsed
    /\ d \notin srvExtracted
    /\ srvExtracted' = srvExtracted \cup {d}
    /\ toast' = ""
    /\ lastEvent' = Event("previewExtractionDone", d)
    /\ UNCHANGED <<route, folderState, srvFiles, srvParsed, requests>>

handleUpload(d) ==
    /\ FolderInteractive
    /\ ~isUploading
    /\ d \notin srvFiles
    /\ BagCardinality(requests) < MaxInFlight
    /\ isUploading' = TRUE
    /\ requests' = requests (+) SetToBag({Pending(uploadFiles(d), TRUE, "handleUpload")})
    /\ toast' = ""
    /\ lastEvent' = Event("handleUpload", d)
    /\ UNCHANGED <<route, folder, folderIsLoading, processingStatus, parsingFile,
                   deleteModalOpen, fileToDelete, isDeleting, serverFiles>>

uploadSettled(r, ok) ==
    /\ BagIn(r, requests)
    /\ r.then = "handleUpload"
    /\ IF ok
       THEN /\ srvFiles' = srvFiles \cup {r.call.file}
            /\ fetchFolderDetails(r.live, requests (-) SetToBag({r}))
            /\ toast' = "file(s) uploaded successfully."
       ELSE /\ requests' = requests (-) SetToBag({r})
            /\ toast' = "Upload failed."
            /\ UNCHANGED srvFiles
    /\ isUploading' = IF Live(r) THEN FALSE ELSE isUploading
    /\ lastEvent' = Event(IF ok THEN "handleUpload:ok" ELSE "handleUpload:error", r.call.file)
    /\ UNCHANGED <<route, folder, folderIsLoading, processingStatus, parsingFile,
                   deleteModalOpen, fileToDelete, isDeleting, srvParsed, srvExtracted>>

handleDeleteClick(d) ==
    /\ FolderInteractive
    /\ Listed(d)
    /\ fileToDelete' = d
    /\ deleteModalOpen' = TRUE
    /\ toast' = ""
    /\ lastEvent' = Event("handleDeleteClick", d)
    /\ UNCHANGED <<route, folder, folderIsLoading, isUploading, processingStatus, parsingFile,
                   isDeleting, serverFiles, requests>>

handleDeleteConfirm ==
    /\ FolderMounted
    /\ deleteModalOpen
    /\ ~isDeleting
    /\ fileToDelete # NoFile
    /\ BagCardinality(requests) < MaxInFlight
    /\ isDeleting' = TRUE
    /\ requests' = requests (+) SetToBag({Pending(deleteFile(fileToDelete), TRUE, "handleDeleteConfirm")})
    /\ toast' = ""
    /\ lastEvent' = Event("handleDeleteConfirm", fileToDelete)
    /\ UNCHANGED <<route, folder, folderIsLoading, isUploading, processingStatus, parsingFile,
                   deleteModalOpen, fileToDelete, serverFiles>>

\* a successful delete removes the document with its parse cache, schema
\* and processed output
deleteSettled(r, ok) ==
    /\ BagIn(r, requests)
    /\ r.then = "handleDeleteConfirm"
    /\ ok => r.call.file \in srvFiles
    /\ IF ok
       THEN /\ srvFiles' = srvFiles \ {r.call.file}
            /\ srvParsed' = srvParsed \ {r.call.file}
            /\ srvExtracted' = srvExtracted \ {r.call.file}
            /\ deleteModalOpen' = IF Live(r) THEN FALSE ELSE deleteModalOpen
            /\ fileToDelete' = IF Live(r) THEN NoFile ELSE fileToDelete
            /\ fetchFolderDetails(r.live, requests (-) SetToBag({r}))
            /\ toast' = "deleted successfully."
       ELSE /\ requests' = requests (-) SetToBag({r})
            /\ toast' = "Failed to delete file."
            /\ UNCHANGED <<serverFiles, deleteModalOpen, fileToDelete>>
    /\ isDeleting' = IF Live(r) THEN FALSE ELSE isDeleting
    /\ lastEvent' = Event(IF ok THEN "handleDeleteConfirm:ok" ELSE "handleDeleteConfirm:error",
                          r.call.file)
    /\ UNCHANGED <<route, folder, folderIsLoading, isUploading, processingStatus, parsingFile>>

\* Cancel button, click on the overlay, Escape key
handleDeleteCancel ==
    /\ FolderMounted
    /\ deleteModalOpen
    /\ deleteModalOpen' = FALSE
    /\ fileToDelete' = NoFile
    /\ toast' = ""
    /\ lastEvent' = Event("handleDeleteCancel", NoFile)
    /\ UNCHANGED <<route, folder, folderIsLoading, isUploading, processingStatus, parsingFile,
                   isDeleting, serverFiles, requests>>

\* Parse / Retry Parse button, up to the await of parseFile
handleAnalyze(d) ==
    /\ FolderInteractive
    /\ Listed(d)
    /\ StatusOf(d) \in {"idle", "error"}
    /\ BagCardinality(requests) < MaxInFlight
    /\ parsingFile' = d
    /\ processingStatus' = [processingStatus EXCEPT ![d] = "parsing"]
    /\ requests' = requests (+) SetToBag({Pending(parseFile(d, FALSE), TRUE, "handleAnalyze")})
    /\ toast' = ""
    /\ lastEvent' = Event(IF StatusOf(d) = "error" THEN "handleAnalyze:retry" ELSE "handleAnalyze", d)
    /\ UNCHANGED <<route, folder, folderIsLoading, isUploading, deleteModalOpen, fileToDelete,
                   isDeleting, serverFiles>>

\* variant: a failed parse puts the document back to idle
StatusAfterParse_failureIsIdle(ok) == IF ok THEN "parsed" ELSE "idle"

\* the status handleAnalyze sets once parseFile has answered
StatusAfterParse(ok) == IF ok THEN "parsed" ELSE "error"

\* handleAnalyze after parseFile answered.  The state updates reach only
\* the page instance that sent the call; navigate() runs either way.
parseSettled(r, ok) ==
    /\ BagIn(r, requests)
    /\ r.then = "handleAnalyze"
    /\ ok => r.call.file \in srvFiles
    /\ srvParsed' = IF ok THEN srvParsed \cup {r.call.file} ELSE srvParsed
    /\ processingStatus' =
           IF Live(r)
           THEN [processingStatus EXCEPT ![r.call.file] = StatusAfterParse(ok)]
           ELSE processingStatus
    /\ parsingFile' = IF Live(r) THEN NoFile ELSE parsingFile
    /\ route' = IF ok THEN "preview" ELSE route
    /\ requests' = IF ok /\ FolderMounted
                   THEN Orphaned(requests (-) SetToBag({r}))
                   ELSE requests (-) SetToBag({r})
    /\ toast' = IF ok THEN "Parsing complete. Ready for schema review." ELSE "Parsing failed."
    /\ lastEvent' = Event(IF ~Live(r) THEN "handleAnalyze:stale"
                          ELSE IF ok THEN "handleAnalyze:ok" ELSE "handleAnalyze:error",
                          r.call.file)
    /\ UNCHANGED <<folder, folderIsLoading, isUploading, deleteModalOpen, fileToDelete,
                   isDeleting, srvFiles, srvExtracted>>

\* setProcessingStatus(initialStatus): the map is replaced as a whole
InitialStatus(statuses) ==
    [d \in Docs |-> IF d \in DOMAIN statuses THEN statuses[d] ELSE "unset"]

\* fetchFolderDetails after getFolderDetails answered: setFolder, then the
\* status checks of every listed file (none to await for an empty folder)
fetchDetailsSettled(r, ok) ==
    /\ BagIn(r, requests)
    /\ r.then = "fetchFolderDetails"
    /\ r.call.endpoint = "folder"
    /\ folder' = IF ok /\ Live(r) THEN Folder(srvFiles) ELSE folder
    /\ IF ok /\ srvFiles # {}
       THEN /\ requests' = (requests (-) SetToBag({r}))
                               (+) SetToBag({StatusChecks(srvFiles, r.live, NoAnswer)})
            /\ UNCHANGED <<folderIsLoading, processingStatus>>
       ELSE /\ requests' = requests (-) SetToBag({r})
            /\ folderIsLoading' = IF Live(r) THEN FALSE ELSE folderIsLoading
            /\ processingStatus' = IF ok /\ Live(r) THEN InitialStatus(<<>>) ELSE processingStatus
    /\ toast' = IF ok THEN "" ELSE "Failed to load project details."
    /\ lastEvent' = Event(IF ok THEN "fetchFolderDetails:details" ELSE "fetchFolderDetails:error",
                          NoFile)
    /\ UNCHANGED <<route, isUploading, parsingFile, deleteModalOpen, fileToDelete, isDeleting,
                   serverFiles>>

\* the server answers the status checks from the artifacts it holds
statusChecksAnswered(r) ==
    /\ BagIn(r, requests)
    /\ r.call.endpoint = "status"
    /\ r.answer = NoAnswer
    /\ requests' = (requests (-) SetToBag({r}))
                       (+) SetToBag({[r EXCEPT !.answer =
                                         Answer([d \in r.call.file |-> DerivedStatus(d)])]})
    /\ toast' = ""
    /\ lastEvent' = Event("statusChecksAnswered", NoFile)
    /\ UNCHANGED <<route, folderState, serverFiles>>

\* fetchFolderDetails after Promise.all(statusPromises)
fetchStatusesSettled(r) ==
    /\ BagIn(r, requests)
    /\ r.call.endpoint = "status"
    /\ r.answer # NoAnswer
    /\ requests' = requests (-) SetToBag({r})
    /\ processingStatus' = IF Live(r) THEN InitialStatus(r.answer.statuses) ELSE processingStatus
    /\ folderIsLoading' = IF Live(r) THEN FALSE ELSE folderIsLoading
    /\ toast' = ""
    /\ lastEvent' = Event("fetchFolderDetails:statuses", NoFile)
    /\ UNCHANGED <<route, folder, isUploading, parsingFile, deleteModalOpen, fileToDelete,
                   isDeleting, serverFiles>>

EditorIdle ==
    /\ activeView = "csv"
    /\ csvData = NoCsv
    /\ fields = DEFAULT_FIELDS
    /\ isLoading = TRUE
    /\ isSaving = FALSE
    /\ isExtracting = FALSE
    /\ isCustom = FALSE
    /\ hasChanges = FALSE
    /\ showSavePrompt = FALSE
    /\ srvSchema = JUndef
    /\ edits = 0

\* The folder page has just been opened on a new, empty folder.
InitFolder ==
    /\ TranslatorIdle
    /\ PollerIdle
    /\ ChunksIdle
    /\ ViewerIdle
    /\ AmountIdle
    /\ ReportIdle
    /\ EditorIdle
    /\ route = "folder"
    /\ folder = NoFolder
    /\ folderIsLoading = TRUE
    /\ isUploading = FALSE
    /\ processingStatus = [d \in Docs |-> "unset"]
    /\ parsingFile = NoFile
    /\ deleteModalOpen = FALSE
    /\ fileToDelete = NoFile
    /\ isDeleting = FALSE
    /\ srvFiles = {}
    /\ srvParsed = {}
    /\ srvExtracted = {}
    /\ requests = SetToBag({Pending(getFolderDetails, TRUE, "fetchFolderDetails")})
    /\ toast = ""
    /\ lastEvent = Event("init", NoFile)

NextFolder ==
    /\ \/ openFolder
       \/ \E d \in Docs : handlePreview(d)
       \/ \E d \in Docs : previewExtractionDone(d)
       \/ \E d \in Docs : handleUpload(d)
       \/ \E r \in BagToSet(requests), ok \in BOOLEAN : uploadSettled(r, ok)
       \/ \E d \in DeleteTargets : handleDeleteClick(d)
       \/ handleDeleteConfirm
       \/ \E r \in BagToSet(requests), ok \in BOOLEAN : deleteSettled(r, ok)
       \/ handleDeleteCancel
       \/ \E d \in Docs : handleAnalyze(d)
       \/ \E r \in BagToSet(requests), ok \in BOOLEAN : parseSettled(r, ok)
       \/ \E r \in BagToSet(requests), ok \in BOOLEAN : fetchDetailsSettled(r, ok)
       \/ \E r \in BagToSet(requests) : statusChecksAnswered(r)
       \/ \E r \in BagToSet(requests) : fetchStatusesSettled(r)
    /\ UNCHANGED <<translatorVars, previewVars, editorState, srvSchema, edits, pollerVars, chunkVars, viewerVars, amountVars, reportVars>>

SpecFolder == InitFolder /\ [][NextFolder]_vars

(***************************************************************************)
(* Progress polling (ProcessingProgress): the folder page shows the        *)
(* component in the row of parsingFile.  Its effect keeps an interval      *)
(* while status.phase is not null; each tick asks the server for the       *)
(* processing status, and an answer with phase null calls onComplete,      *)
(* which is setParsingFile(null) of the page.  Deletions are left to the    *)
(* folder specification.                                                   *)
(***************************************************************************)
\* {parsingFile === filename ? <ProcessingProgress .../> : ...} in a row of
\* the file list
PollerMounted ==
    /\ FolderMounted
    /\ ~folderIsLoading
    /\ parsingFile # NoFile
    /\ Listed(parsingFile)

\* the phases the status endpoint answers with
Phases == {"Parsing", "null"}

Poll(file, live, poller) ==
    [call |-> getProcessingStatus(file), live |-> live, then |-> "poll", poller |-> poller]

\* What React does with ProcessingProgress after a step of the page: a row
\* that starts to show the component mounts a new instance (phase
\* 'Parsing'); the effect's cleanup clears the interval on unmount and the
\* effect sets one while the phase is not null.
PollerFollows(phase) ==
    LET mounts == PollerMounted' /\ (~PollerMounted \/ parsingFile' # parsingFile)
    IN  /\ pollerId' = IF mounts THEN pollerId + 1 ELSE pollerId
        /\ pollPhase' = IF mounts THEN "Parsing" ELSE phase
        /\ pollInterval' = (PollerMounted' /\ pollPhase' # "null")

\* a tick of setInterval: getProcessingStatus is called
pollTick ==
    /\ pollInterval
    /\ BagCardinality(requests) < MaxInFlight
    /\ requests' = requests (+) SetToBag({Poll(parsingFile, TRUE, pollerId)})
    /\ toast' = ""
    /\ lastEvent' = Event("pollTick", parsingFile)
    /\ UNCHANGED <<folderVars, pollerVars, chunkVars, viewerVars, amountVars, reportVars>>

\* variant: an answer with phase null does not reach onComplete
pollSettled_noComplete(r, ok, phase) ==
    /\ BagIn(r, requests)
    /\ r.then = "poll"
    /\ requests' = requests (-) SetToBag({r})
    /\ UNCHANGED parsingFile
    /\ toast' = ""
    /\ lastEvent' = Event(IF ~ok THEN "poll:error"
                          ELSE IF phase = "null" THEN "poll:null" ELSE "poll:phase",
                          r.call.file)
    /\ UNCHANGED <<route, folder, folderIsLoading, isUploading, processingStatus,
                   deleteModalOpen, fileToDelete, isDeleting, serverFiles>>
    /\ PollerFollows(IF ok /\ r.poller = pollerId /\ PollerMounted THEN phase ELSE pollPhase)

\* the interval callback after getProcessingStatus answered: setStatus
\* reaches the instance that asked if it is still mounted; onComplete runs
\* whenever the phase is null and reaches the page if that is still shown
pollSettled(r, ok, phase) ==
    /\ BagIn(r, requests)
    /\ r.then = "poll"
    /\ requests' = requests (-) SetToBag({r})
    /\ parsingFile' = IF ok /\ phase = "null" /\ Live(r) THEN NoFile ELSE parsingFile
    /\ toast' = ""
    /\ lastEvent' = Event(IF ~ok THEN "poll:error"
                          ELSE IF phase = "null" THEN "poll:null" ELSE "poll:phase",
                          r.call.file)
    /\ UNCHANGED <<route, folder, folderIsLoading, isUploading, processingStatus,
                   deleteModalOpen, fileToDelete, isDeleting, serverFiles>>
    /\ PollerFollows(IF ok /\ r.poller = pollerId /\ PollerMounted THEN phase ELSE pollPhase)

\* The folder page shows one uploaded document that is not parsed.
InitPoller ==
    /\ TranslatorIdle
    /\ EditorIdle
    /\ PollerIdle
    /\ ChunksIdle
    /\ ViewerIdle
    /\ AmountIdle
    /\ ReportIdle
    /\ route = "folder"
    /\ folder = Folder({filename})
    /\ folderIsLoading = FALSE
    /\ isUploading = FALSE
    /\ processingStatus = [d \in Docs |-> "idle"]
    /\ parsingFile = NoFile
    /\ deleteModalOpen = FALSE
    /\ fileToDelete = NoFile
    /\ isDeleting = FALSE
    /\ srvFiles = {filename}
    /\ srvParsed = {}
    /\ srvExtracted = {}
    /\ requests = EmptyBag
    /\ toast = ""
    /\ lastEvent = Event("init", NoFile)

NextPoller ==
    /\ \/ /\ \/ openFolder
             \/ \E d \in Docs : handlePreview(d)
             \/ /\ pollerId < MaxPollers
                /\ \E d \in Docs : handleAnalyze(d)
             \/ \E r \in BagToSet(requests), ok \in BOOLEAN : parseSettled(r, ok)
             \/ \E d \in Docs : handleUpload(d)
             \/ \E r \in BagToSet(requests), ok \in BOOLEAN : uploadSettled(r, ok)
             \/ \E r \in BagToSet(requests), ok \in BOOLEAN : fetchDetailsSettled(r, ok)
             \/ \E r \in BagToSet(requests) : statusChecksAnswered(r)
             \/ \E r \in BagToSet(requests) : fetchStatusesSettled(r)
          /\ PollerFollows(pollPhase)
       \/ pollTick
       \/ \E r \in BagToSet(requests), ok \in BOOLEAN, phase \in Phases : pollSettled(r, ok, phase)
    /\ UNCHANGED <<translatorVars, previewVars, editorState, srvSchema, edits, chunkVars, viewerVars, amountVars, reportVars>>

SpecPoller == InitPoller /\ [][NextPoller]_vars

(***************************************************************************)
(* Chunk specification: metadata and the PDF load, then clicks on chunks.  *)
(***************************************************************************)
InitChunks ==
    /\ ChunksIdle
    /\ ViewerIdle
    /\ AmountIdle
    /\ ReportIdle
    /\ TranslatorIdle
    /\ EditorIdle
    /\ FolderIdle
    /\ PollerIdle
    /\ requests = EmptyBag
    /\ toast = ""
    /\ lastEvent = Event("init", NoFile)

NextChunks ==
    /\ \/ \E chunks \in ChunkLists : metadataLoaded(chunks)
       \/ \E n \in 1..MaxPages : onDocumentLoadSuccess(n)
       \/ \E i \in 1..MaxChunks : handleChunkClick(i)
    /\ UNCHANGED <<translatorVars, editorVars, folderVars, pollerVars, viewerVars, amountVars, reportVars>>

SpecChunks == InitChunks /\ [][NextChunks]_vars

(***************************************************************************)
(* Viewer specification: the preview of a document whose chunk carries a   *)
(* box, or none.                                                           *)
(***************************************************************************)
InitViewer ==
    /\ scale = DefaultScale
    /\ containerWidth = 0
    /\ canvasRect = NoDims
    /\ pageDimensions = NoDims
    /\ recapturePending = TRUE
    /\ showBoundingBoxes = TRUE
    /\ chunkBox \in BoundingBoxes \cup {NoBox}
    /\ overlayRect = NoRect
    /\ TranslatorIdle
    /\ EditorIdle
    /\ FolderIdle
    /\ PollerIdle
    /\ ChunksIdle
    /\ AmountIdle
    /\ ReportIdle
    /\ requests = EmptyBag
    /\ toast = ""
    /\ lastEvent = Event("init", NoFile)

NextViewer ==
    /\ \/ handleZoomIn
       \/ handleZoomOut
       \/ handleResetZoom
       \/ handleFitToWidth
       \/ \E clientWidth \in ClientWidths : updateWidth(clientWidth)
       \/ toggleBoundingBoxes
       \/ handlePageRenderSuccess
       \/ recaptureTimer
    /\ UNCHANGED <<translatorVars, editorVars, folderVars, pollerVars, chunkVars, amountVars, reportVars>>

SpecViewer == InitViewer /\ [][NextViewer]_vars

(***************************************************************************)
(* Normalizer specification: the validator is applied to one transaction   *)
(* of the bounded set.                                                     *)
(***************************************************************************)
InitAmount ==
    /\ aPc = "transaction"
    /\ aTransaction \in Transactions
    /\ aAmount = <<>>
    /\ TranslatorIdle
    /\ EditorIdle
    /\ FolderIdle
    /\ PollerIdle
    /\ ChunksIdle
    /\ ViewerIdle
    /\ ReportIdle
    /\ requests = EmptyBag
    /\ toast = ""
    /\ lastEvent = Event("init", NoFile)

normalizeAmount ==
    /\ aPc = "transaction"
    /\ aAmount' = normalize_transaction_amount(aTransaction)
    /\ aPc' = "done"
    /\ UNCHANGED aTransaction

NextAmount ==
    /\ normalizeAmount
    /\ UNCHANGED <<translatorVars, editorVars, folderVars, pollerVars, chunkVars, viewerVars,
                   reportVars>>

SpecAmount == InitAmount /\ [][NextAmount]_vars

(***************************************************************************)
(* Report specification: one failed long-running call is reported.         *)
(***************************************************************************)
InitReport ==
    /\ rPc = "failed"
    /\ rCall \in LongRunningCalls
    /\ rError \in AxiosErrors
    /\ rRejection = JUndef
    /\ rReport = NoReport
    /\ TranslatorIdle
    /\ EditorIdle
    /\ FolderIdle
    /\ PollerIdle
    /\ ChunksIdle
    /\ ViewerIdle
    /\ AmountIdle
    /\ requests = EmptyBag
    /\ toast = ""
    /\ lastEvent = Event("init", NoFile)

intercept ==
    /\ rPc = "failed"
    /\ rRejection' = errorInterceptor(rError)
    /\ rPc' = "rejected"
    /\ UNCHANGED <<rCall, rError, rReport>>

catchFailure ==
    /\ rPc = "rejected"
    /\ rReport' = Reported(rCall, rRejection)
    /\ rPc' = "reported"
    /\ UNCHANGED <<rCall, rError, rRejection>>

NextReport ==
    /\ \/ intercept
       \/ catchFailure
    /\ UNCHANGED <<translatorVars, editorVars, folderVars, pollerVars, chunkVars, viewerVars,
                   amountVars>>

SpecReport == InitReport /\ [][NextReport]_vars

(***************************************************************************)
(* Translator specification: a field list is converted to a schema         *)
(* document and the document back to a field list.                         *)
(***************************************************************************)
InitTranslator ==
    /\ \/ /\ tPc = "fields"
          /\ tFields \in FieldLists
          /\ tSchema = JUndef
       \/ /\ tPc = "schema"
          /\ tFields = <<>>
          /\ tSchema \in SchemaDocuments
    /\ tBack = <<>>
    /\ tLogged = FALSE
    /\ EditorIdle
    /\ FolderIdle
    /\ PollerIdle
    /\ ChunksIdle
    /\ ViewerIdle
    /\ AmountIdle
    /\ ReportIdle
    /\ requests = EmptyBag
    /\ toast = ""
    /\ lastEvent = Event("init", NoFile)

toExtractionSchema ==
    /\ tPc = "fields"
    /\ tSchema' = fieldsToJsonSchema(tFields)
    /\ tPc' = "schema"
    /\ UNCHANGED <<tFields, tBack, tLogged>>

fromExtractionSchema ==
    /\ tPc = "schema"
    /\ tBack' = jsonSchemaToFields(tSchema)
    /\ tLogged' = jsonSchemaToFieldsCall(tSchema).logged
    /\ tPc' = "done"
    /\ UNCHANGED <<tFields, tSchema>>

NextTranslator ==
    /\ \/ toExtractionSchema
       \/ fromExtractionSchema
    /\ UNCHANGED <<editorVars, folderVars, pollerVars, chunkVars, viewerVars, amountVars, reportVars>>

SpecTranslator == InitTranslator /\ [][NextTranslator]_vars

(***************************************************************************)
(* Properties                                                              *)
(***************************************************************************)
\* number of outstanding requests of the bag among those in S
RECURSIVE Copies(_, _)
Copies(bag, S) ==
    IF S = {} THEN 0
    ELSE LET r == CHOOSE r \in S : TRUE
         IN  CopiesIn(r, bag) + Copies(bag, S \ {r})

\* outstanding calls to an endpoint, from any page instance
Outstanding(bag, endpoint) ==
    Copies(bag, {r \in BagToSet(bag) : r.call.endpoint = endpoint})

\* outstanding calls to an endpoint for a file, sent by the page instance
\* that is still shown
OutstandingLive(bag, endpoint, file) ==
    Copies(bag, {r \in BagToSet(bag) :
                    r.live /\ r.call.endpoint = endpoint /\ r.call.file = file})

\* a field list that breaks a naming rule: an empty name or a repeated name
BreaksNamingRule(fs) ==
    \/ \E i \in 1..Len(fs) : fs[i].name = ""
    \/ \E i, j \in 1..Len(fs) : i # j /\ fs[i].name = fs[j].name

ValidationToasts == {"All fields must have a name", "Field names must be unique"}

\* C1: an Extract click while the schema has unsaved edits sends nothing and
\* changes nothing but to open the prompt; with unsaved edits an extract call
\* is sent only by Extract Without Saving or by Save and Extract.
C1_UnsavedEditsPromptBeforeExtract ==
    [][ /\ (lastEvent'.op = "handleExtract" /\ hasChanges) =>
              /\ requests' = requests
              /\ showSavePrompt'
              /\ UNCHANGED <<fields, isLoading, isSaving, isExtracting, isCustom, hasChanges,
                             srvSchema, previewVars>>
        /\ (hasChanges /\ Outstanding(requests', "extract") > Outstanding(requests, "extract")) =>
              lastEvent'.op \in {"extractWithoutSaving", "handleSaveAndExtract",
                                 "handleSaveAndExtract:saved",
                                 "handleSaveAndExtract:saveError"} ]_vars

C1_Witness ==
    /\ lastEvent.op = "handleExtract"
    /\ hasChanges
    /\ showSavePrompt
    /\ Outstanding(requests, "extract") = 0

\* C2: no request of the schema editor or the Preview page goes to the
\* parse endpoint or to the combined parse-and-extract endpoint.
C2_EditorNeverParses ==
    \A r \in BagToSet(requests) : r.call.endpoint \notin {"parse", "process"}

C2_Witness ==
    /\ csvData # NoCsv
    /\ lastEvent.op = "handleExtract"
    /\ Outstanding(requests, "extract") = 1

\* C3: at most one extract request is in flight for the document (counted
\* for the editor instance on screen, so tab changes are not what breaks it).
C3_OneExtractInFlight == OutstandingLive(requests, "extract", filename) <= 1

\* C4: at most one parse request is in flight for each document (counted for
\* the folder page on screen).
C4_OneParseInFlight == \A d \in Docs : OutstandingLive(requests, "parse", d) <= 1

\* C5: converting a non-empty field list with non-empty, pairwise distinct
\* names to a schema document and back returns the same list in the same order.
C5_RoundTrip ==
    (tPc = "done" /\ Len(tFields) > 0 /\ ~BreaksNamingRule(tFields)) => tBack = tFields

\* C6: Save on a field list with an empty or repeated name ends with a
\* validation toast and sends nothing; whenever handleSave meets such a list
\* no schema update is sent and isCustom and hasChanges keep their values.
C6_InvalidSaveRejected ==
    [][ /\ (lastEvent'.op = "handleSave" /\ BreaksNamingRule(fields)) =>
              /\ requests' = requests
              /\ toast' \in ValidationToasts
              /\ UNCHANGED <<isCustom, hasChanges, isSaving, srvSchema, fields>>
        /\ (lastEvent'.op = "handleSaveAndExtract" /\ BreaksNamingRule(fields)) =>
              /\ Outstanding(requests', "schema") = Outstanding(requests, "schema")
              /\ toast' \in ValidationToasts
              /\ UNCHANGED <<isCustom, hasChanges, isSaving, srvSchema, fields>> ]_vars

C6_Witness ==
    /\ lastEvent.op = "handleSave"
    /\ BreaksNamingRule(fields)
    /\ toast \in ValidationToasts
    /\ hasChanges
    /\ requests = EmptyBag

\* C7: Save and Extract on a field list with an empty or repeated name sends
\* no request at all.
C7_InvalidSaveAndExtractAborts ==
    [][ (lastEvent'.op = "handleSaveAndExtract" /\ BreaksNamingRule(fields)) =>
            requests' = requests ]_vars

\* C8: when the schema update of Save and Extract fails, no extract request
\* is sent.
C8_NoExtractAfterFailedSave ==
    [][ lastEvent'.op = "handleSaveAndExtract:saveError" =>
            Outstanding(requests', "extract") = Outstanding(requests, "extract") ]_vars

\* C9: the extraction started by Extract Without Saving runs with the field
\* list in the editor.
C9_ExtractsWithEditedFields ==
    lastEvent.op = "extractWithoutSaving" =>
        \E r \in BagToSet(requests) :
            /\ r.then = "extractWithoutSaving"
            /\ r.live
            /\ ExtractionSchema(r.call) = DropUndefined(fieldsToJsonSchema(fields))

\* C10: requesting a parse sets the document's status to parsing, the
\* answer sets it to parsed on success and to error on failure, and an
\* answer that reaches a page that is gone leaves it alone.
C10_ParseStatusTransitions ==
    [][ \A d \in Docs :
          /\ lastEvent' = Event("handleAnalyze", d) =>
                 /\ StatusOf(d) \in {"idle", "error"}
                 /\ processingStatus'[d] = "parsing"
          /\ lastEvent' = Event("handleAnalyze:ok", d) => processingStatus'[d] = "parsed"
          /\ lastEvent' = Event("handleAnalyze:error", d) => processingStatus'[d] = "error"
          /\ lastEvent' = Event("handleAnalyze:stale", d) =>
                 processingStatus'[d] = processingStatus[d] ]_vars

C10_Witness ==
    /\ lastEvent = Event("handleAnalyze:ok", "a.pdf")
    /\ processingStatus["a.pdf"] = "parsed"
    /\ "a.pdf" \in srvParsed

\* C11: right after a failed extraction of a parsed document the document's
\* status is error (the Preview page keeps no status of its own: the status
\* is the one the folder page derives for the document) and the parse result
\* is still there.
C11_FailedExtractIsError ==
    (lastEvent.op = "extract:error" /\ filename \notin srvExtracted) =>
        /\ DerivedStatus(filename) = "error"
        /\ filename \in srvParsed

\* C12: an extraction that fails changes neither the extracted result (on
\* display and on the server) nor the active view nor the field list.
C12_FailedExtractKeepsResult ==
    [][ lastEvent'.op = "extract:error" =>
            UNCHANGED <<csvData, activeView, fields, srvExtracted, srvSchema>> ]_vars

C12_Witness ==
    /\ lastEvent.op = "extract:error"
    /\ csvData # NoCsv
    /\ filename \in srvExtracted
    /\ Mounted
    /\ ~isExtracting

OperationInFlight(d) ==
    \E r \in BagToSet(requests) :
        r.call.endpoint \in {"parse", "extract", "process"} /\ r.call.file = d

\* C14: on the folder page, once the list is shown, every listed document
\* with no parse or extract in flight has the status derived from its
\* artifacts: extracted if a result exists, else parsed if a parse exists,
\* else idle.
C14_StatusIsDerived ==
    \A d \in Docs :
        (FolderMounted /\ ~folderIsLoading /\ Listed(d) /\ ~OperationInFlight(d)) =>
            StatusOf(d) = DerivedStatus(d)

\* C15: an answer with phase null ends the polling of the poller that asked
\* and reaches onComplete: that poller's interval is gone after the step and
\* parsingFile of the page is cleared; a status request is sent only by the
\* tick of a mounted poller whose phase is not null, and an interval starts
\* only with a new poller.
C15_NullPhaseStopsPolling ==
    [][ /\ \A r \in BagToSet(requests) :
              ( /\ r.then = "poll"
                /\ requests' = requests (-) SetToBag({r})
                /\ lastEvent'.op = "poll:null" ) =>
                  /\ r.poller = pollerId => ~pollInterval'
                  /\ Live(r) => parsingFile' = NoFile
        /\ Outstanding(requests', "process/status") > Outstanding(requests, "process/status") =>
              /\ pollInterval
              /\ PollerMounted
              /\ pollPhase # "null"
              /\ requests' = requests (+) SetToBag({Poll(parsingFile, TRUE, pollerId)})
        /\ (~pollInterval /\ pollInterval') => pollerId' = pollerId + 1
        /\ pollerId' >= pollerId ]_vars

C15_Witness ==
    /\ lastEvent = Event("poll:null", filename)
    /\ FolderMounted
    /\ parsingFile = NoFile
    /\ ~pollInterval
    /\ pollerId = 1
    /\ OutstandingLive(requests, "parse", filename) = 1

\* C16: while the poller of a document is polling, the status of that
\* document is parsing; the answer of the parse call and leaving the page
\* end the polling; and a status request is sent only while polling.
C16_PollsOnlyWhileParsing ==
    [][ /\ pollInterval => StatusOf(parsingFile) = "parsing"
        /\ lastEvent'.op \in {"handleAnalyze:ok", "handleAnalyze:error", "handlePreview"} =>
              ~pollInterval'
        /\ ~FolderMounted' => ~pollInterval'
        /\ Outstanding(requests', "process/status") > Outstanding(requests, "process/status") =>
              pollInterval ]_vars

\* C17: the answer to a parse call whose folder page is no longer shown
\* changes neither the page state nor the route.
C17_LateParseIsDiscarded ==
    [][ lastEvent'.op = "handleAnalyze:stale" => UNCHANGED <<route, folderState>> ]_vars

\* the array-item object of a schema document and its properties are present
\* and are objects
ArrayItem(schema) == Get(Get(Get(schema, "properties"), "transactions"), "items")

ArrayItemWellFormed(schema) ==
    /\ ArrayItem(schema).k = "object"
    /\ Get(ArrayItem(schema), "properties").k = "object"

\* C18: jsonSchemaToFields returns exactly the five default fields whenever
\* the array-item object of the document or its properties are absent or
\* malformed.
C18_MalformedItemGivesDefaults ==
    (tPc = "done" /\ ~ArrayItemWellFormed(tSchema)) => tBack = DEFAULT_FIELDS

\* C19: when jsonSchemaToFields falls back to the default fields because the
\* document could not be read, its caller is told so: the call leaves
\* something that a clean default does not, a logged error or a result other
\* than the default fields.
C19_FallbackIsReported ==
    (tPc = "done" /\ ~ArrayItemWellFormed(tSchema)) => (tLogged \/ tBack # DEFAULT_FIELDS)

\* the chunks of the loaded metadata, in their order
LoadedChunks == IF metadata = JNull THEN <<>> ELSE Get(metadata, "chunks").v

HasGrounding(chunk) == Get(chunk, "grounding").k = "object"

\* the page a chunk names: its grounding page, or without grounding its
\* legacy page_number; JUndef when it names none
NamedPage(chunk) ==
    IF HasGrounding(chunk) THEN Get(Get(chunk, "grounding"), "page")
    ELSE Get(chunk, "page_number")

\* the page of a chunk, a chunk that names none being placed on page 0
PlacedPage(chunk) == IF NamedPage(chunk) = JUndef THEN JNum(0) ELSE NamedPage(chunk)

IsIn(chunk, chunks) == \E i \in 1..Len(chunks) : chunks[i] = chunk

\* C20 as stated: each rendered page shows exactly the chunks whose grounding
\* page (or, without grounding, legacy page_number) equals the page, in their
\* original order, and a clicked chunk is among the chunks of the page the
\* click scrolled to.
C20_ChunksOfNamedPage ==
    /\ \A p \in DOMAIN overlays :
          overlays[p] = SelectSeq(LoadedChunks, LAMBDA chunk : NamedPage(chunk) = JNum(p))
    /\ scrolledTo # NoPage => IsIn(clickedChunk, overlays[scrolledTo])

\* C20 amended: each rendered page shows exactly the chunks whose page equals
\* it, in their original order, the page of a chunk being its grounding
\* page, without grounding its legacy page_number, and 0 when it has
\* neither; a clicked chunk is among the chunks of the page the click
\* scrolled to.
C20_ChunksOfPlacedPage ==
    /\ \A p \in DOMAIN overlays :
          overlays[p] = SelectSeq(LoadedChunks, LAMBDA chunk : PlacedPage(chunk) = JNum(p))
    /\ scrolledTo # NoPage => IsIn(clickedChunk, overlays[scrolledTo])

\* a chunk with grounding on the second page and a different legacy page
\* number was clicked and its page scrolled into view; another chunk of the
\* document names no page
C20_Witness ==
    /\ scrolledTo = 1
    /\ HasGrounding(clickedChunk)
    /\ Get(clickedChunk, "page_number") = JNum(0)
    /\ Len(overlays[1]) > 0
    /\ \E i \in 1..Len(LoadedChunks) : NamedPage(LoadedChunks[i]) = JUndef

\* C21: for a chunk with normalized box (left, top, right, bottom) on a page
\* captured at width W and height H, the overlay rectangle is at x = left*W,
\* y = top*H with width (right-left)*W and height (bottom-top)*H; box
\* coordinates are counted in tenths, hence the division by 10.
C21_OverlayRectangle ==
    (showBoundingBoxes /\ pageDimensions # NoDims /\ chunkBox # NoBox) =>
        overlayRect = [x |-> (chunkBox.left * pageDimensions.width) \div 10,
                       y |-> (chunkBox.top * pageDimensions.height) \div 10,
                       width |-> ((chunkBox.right - chunkBox.left) * pageDimensions.width) \div 10,
                       height |-> ((chunkBox.bottom - chunkBox.top) * pageDimensions.height) \div 10]

\* the example: box (0.1, 0.2, 0.4, 0.3) at 800 by 1000 is drawn at
\* (80, 200, 240, 100)
C21_Witness ==
    /\ chunkBox = BoundingBox(1, 2, 4, 3)
    /\ pageDimensions = [width |-> 800, height |-> 1000]
    /\ overlayRect = [x |-> 80, y |-> 200, width |-> 240, height |-> 100]

\* positions of the chunks drawn as selected: chunk.id === selectedChunkId
Selected ==
    {i \in 1..Len(LoadedChunks) : Get(LoadedChunks[i], "id") = selectedChunkId}

\* no two chunks of the document carry the same identifier
UniqueIds ==
    \A i, j \in 1..Len(LoadedChunks) :
        (i # j /\ Get(LoadedChunks[i], "id") # JUndef) =>
            Get(LoadedChunks[i], "id") # Get(LoadedChunks[j], "id")

\* C22: in a document whose chunk identifiers are unique, a click on a chunk
\* leaves that chunk as the only one shown as selected, whether it was
\* selected before or not.
C22_ClickSelectsOnlyThat ==
    [][\A i \in 1..MaxChunks : (UniqueIds /\ handleChunkClick(i)) => Selected' = {i}]_vars

\* a sign character followed by digits, a point and two digits
WellFormedAmount(text) ==
    /\ Len(text) >= 5
    /\ text[1] \in {"+", "-"}
    /\ text[Len(text) - 2] = "."
    /\ \A i \in 2..Len(text) : i # Len(text) - 2 => text[i] \in Digits

HasIndicator(tx) == UpperText(tx.type_indicator) \in {<<"D", "R">>, <<"C", "R">>}

\* the raw amount is written as a debit: leading minus, parentheses or a
\* trailing Dr
WrittenNegative(raw) ==
    /\ Len(raw) >= 2
    /\ \/ raw[1] = "-"
       \/ raw[1] = "(" /\ raw[Len(raw)] = ")"
       \/ UpperText(SubSeq(raw, Len(raw) - 1, Len(raw))) = <<"D", "R">>

C24_TimeoutIsDistinct ==
    (rPc = "reported" /\ rError = TimeoutError) =>
        \A e \in AxiosErrors \ {TimeoutError} : Reported(rCall, errorInterceptor(e)) # rReport

\* the declared properties of the array item and its required list
DeclaredProperties(schema) == Get(ArrayItem(schema), "properties")

DeclaredRequired(schema) == Get(ArrayItem(schema), "required")

\* a document whose array item declares at least one property, each an
\* object, with a required list that is absent or an array
DeclaresFields(schema) ==
    /\ ArrayItemWellFormed(schema)
    /\ Len(DeclaredProperties(schema).v) > 0
    /\ \A i \in 1..Len(DeclaredProperties(schema).v) :
          DeclaredProperties(schema).v[i].val.k = "object"
    /\ DeclaredRequired(schema).k \in {"undefined", "array"}

FieldTypes == {JStr("string"), JStr("number"), JStr("boolean")}

\* C25: jsonSchemaToFields gives each field the declared type when it is one
\* of string, number, boolean and the type string otherwise; the description
\* defaults to empty and required is true exactly for the names in the
\* item's required list.
C25_FieldFromDeclaration ==
    (tPc = "done" /\ DeclaresFields(tSchema)) =>
        /\ Len(tBack) = Len(DeclaredProperties(tSchema).v)
        /\ \A i \in 1..Len(tBack) :
              LET declared == DeclaredProperties(tSchema).v[i] IN
              /\ tBack[i].name = declared.key
              /\ tBack[i].type = (IF Get(declared.val, "type") \in FieldTypes
                                  THEN Get(declared.val, "type") ELSE JStr("string"))
              /\ tBack[i].description = (IF Get(declared.val, "description") = JUndef
                                         THEN JStr("") ELSE Get(declared.val, "description"))
              /\ tBack[i].required =
                    (/\ DeclaredRequired(tSchema).k = "array"
                     /\ \E j \in 1..Len(DeclaredRequired(tSchema).v) :
                           DeclaredRequired(tSchema).v[j] = JStr(declared.key))

\* the row of a document shows ProcessingProgress instead of its badge
ProgressShown(d) == FolderMounted /\ parsingFile = d

\* a step of handleAnalyze for a document: its start, or its continuation
\* after parseFile answered
ParseStepOf(d) ==
    \/ handleAnalyze(d)
    \/ \E r \in BagToSet(requests), ok \in BOOLEAN :
          r.then = "handleAnalyze" /\ r.call.file = d /\ parseSettled(r, ok)

\* C26: starting, completing or failing a parse of one document leaves the
\* status of every other document as it was and, while the folder page stays
\* shown, keeps the progress display of another document whose parse is
\* still in flight.
C26_DocumentsIndependent ==
    [][\A a, b \in Docs :
          (a # b /\ ParseStepOf(a) /\ FolderMounted') =>
              /\ StatusOf(b)' = StatusOf(b)
              /\ (ProgressShown(b) /\ OutstandingLive(requests', "parse", b) > 0) =>
                    ProgressShown(b)']_vars

\* C27: when a save completes and the editor shows no unsaved changes, the
\* field list on screen is the one that was persisted: an edit made while
\* the save was pending is not marked as saved.
C27_SavedMeansPersisted ==
    [][\A r \in BagToSet(requests) :
          ( /\ handleSaveSettled(r, TRUE) \/ handleSaveAndExtractSaved(r, TRUE)
            /\ Live(r)
            /\ ~hasChanges' /\ ~isSaving' ) =>
                DropUndefined(fieldsToJsonSchema(fields')) = srvSchema']_vars

\* a save (Save button or Save & Extract) or a reset whose call is rejected
SaveOrResetFails ==
    \E r \in BagToSet(requests) :
        \/ handleSaveSettled(r, FALSE)
        \/ handleSaveAndExtractSaved(r, FALSE)
        \/ handleResetSettled(r, FALSE)

\* a save that the server accepted, seen by the editor directly or when it
\* loads the schema that the save stored
SaveSucceeded ==
    \E r \in BagToSet(requests) :
        \/ handleSaveSettled(r, TRUE)
        \/ handleSaveAndExtractSaved(r, TRUE)
        \/ fetchSchemaSettled(r, TRUE) /\ SchemaResponse.is_custom

ResetSucceeded == \E r \in BagToSet(requests) : handleResetSettled(r, TRUE)

\* C28: a save or reset whose remote call fails leaves fields, isCustom and
\* hasChanges as they are; within one editor isCustom turns true only with a
\* successful save and turns false only with a successful reset.
C28_FailureLeavesEditor ==
    [][ /\ SaveOrResetFails => UNCHANGED <<fields, isCustom, hasChanges>>
        /\ (~isCustom /\ isCustom') => SaveSucceeded
        /\ (isCustom /\ isCustom' = FALSE /\ Mounted /\ Mounted') => ResetSucceeded ]_vars

\* a reset of a saved custom schema was rejected and the editor still shows it
C28_Witness ==
    /\ lastEvent.op = "handleResetToDefault:error"
    /\ Mounted /\ isCustom /\ ~isSaving
    /\ fields # DEFAULT_FIELDS
    /\ srvSchema # JUndef

\* C29: every save and every extract that was started finishes with its
\* busy flag cleared, whether the call succeeds or fails, provided the
\* remote call responds.
C29_BusyFlagsClear ==
    /\ isSaving ~> ~isSaving
    /\ isExtracting ~> ~isExtracting

\* Save & Extract stored the schema, its extraction failed, and the editor
\* is idle again
C29_Witness ==
    /\ lastEvent.op = "extract:error"
    /\ Mounted /\ isCustom
    /\ ~isSaving /\ ~isExtracting
    /\ requests = EmptyBag

\* C30: after any sequence of zoom in, zoom out, reset zoom and fit to width,
\* the scale is between 0.5 and 3.0.
C30_ScaleInRange == MinScale <= scale /\ scale <= MaxScale

====
